---------------------------- MODULE Spec2Model ----------------------------
(***************************************************************************)
(* A model of the Argo acceptance-test harness                             *)
(* (src/python_test_interface.py, src/test_argo_hello_world.py).           *)
(*                                                                         *)
(* Conventions.                                                            *)
(*  - A Python string is a TLA+ string when the code only compares it as a *)
(*    whole (phases, namespaces) and a sequence of characters when the     *)
(*    code looks inside it (durations, node ids, pod names).               *)
(*  - The code tests optional fields by truthiness (`x or d`, `if x`), so  *)
(*    None and the empty string behave alike: both are the empty value     *)
(*    ("" or << >>).                                                       *)
(*  - An error message is the sequence of the pieces its f-string joins.   *)
(*  - Each component has its own specification (SpecWait, ...); the        *)
(*    variables of the other components stay at their idle values.         *)
(***************************************************************************)
EXTENDS Integers, Sequences, FiniteSets, TLC

VARIABLES
    \* ---- wait_workflow (python_test_interface.py:112-128) ----
    now,              \* time.time(), in seconds since the call
    namespace,        \* argument
    name,             \* argument
    timeout_seconds,  \* argument
    deadline,         \* local
    last_phase,       \* local; "" is None
    wpc,              \* position in wait_workflow
    polls,            \* every get_workflow call so far, with its outcome
    printed,          \* the phases print() has emitted
    wret,             \* the returned wf ([poll |-> 0] while none)
    werr,             \* the raised exception ([kind |-> ""] while none)
    \* ---- main and run_one_scenario (python_test_interface.py:342-409) ----
    dir,              \* the scenario directory: file name -> its definition
    argName,          \* args.name (<< >> is None)
    argTag,           \* args.tag
    scenarios,        \* the list main iterates over
    mpc,              \* position in main / run_one_scenario
    idx,              \* index of the scenario of the current loop iteration
    passed,           \* counter
    failed,           \* counter
    started,          \* file names for which run_one_scenario was entered
    submitted,        \* file names whose workflow was submitted
    results,          \* per finished scenario: file name, verdict, what was raised
    exitCode,         \* the process's exit status (-1 while running)
    \* ---- resolve_pod_name (python_test_interface.py:184-258) ----
    nodes,            \* argument: status.nodes, in the order of the mapping
    wf_name,          \* argument
    display_name,     \* argument
    rpc,              \* "call" before, "done" after the call
    resolved,         \* the outcome of the call
    \* ---- assert_expectations (python_test_interface.py:264-338) ----
    wf,               \* argument: the final workflow
    expect,           \* argument: the scenario's expectations
    epc,              \* position in assert_expectations
    ni,               \* index of the node expectation of the current iteration
    evlog,            \* the checks evaluated so far, each with its verdict
    apiCalls,         \* the pod reads and log fetches issued so far
    resolveCalls,     \* the node expectations for which resolve_pod_name was called
    e_logs,           \* local logs: the text read_pod_logs returned last
    eerr,             \* the raised exception ([kind |-> ""] while none)
    \* ---- read_pod_logs (python_test_interface.py:131-181) ----
    pod_spec,         \* pod.spec as read: the names of its containers
    lpc,              \* position in read_pod_logs
    todo,             \* the names the current for loop has still to visit
    chunks,           \* local: the sections appended so far
    fetches,          \* every read_namespaced_pod_log call so far, with its outcome
    log_text,         \* the returned text
    \* ---- parse_duration_to_seconds (python_test_interface.py:19-29) ----
    duration_text,    \* argument s
    ppc,              \* "call" before, "done" after the call
    parsed,           \* the outcome: the seconds returned, or ValueError
    \* ---- the smoke test (test_argo_hello_world.py:21-60) ----
    tpc,              \* position in the test and its wait_workflow
    t_now,            \* time.time(), in seconds since wait_workflow was called
    t_deadline,       \* wait_workflow: deadline
    t_last_phase,     \* wait_workflow: last_phase
    t_wf_name,        \* what the submit printed, stripped
    t_phase,          \* what wait_workflow returned ("" while none)
    t_printed,        \* the phases print("Phase:", ...) has emitted
    cmds,             \* the commands run so far, with their outcome
    verdict           \* the exception raised in the test, "passed" at its end, "" before

waitVars == <<now, namespace, name, timeout_seconds, deadline, last_phase,
              wpc, polls, printed, wret, werr>>

mainVars == <<dir, argName, argTag, scenarios, mpc, idx, passed, failed,
              started, submitted, results, exitCode>>

resolveVars == <<nodes, wf_name, display_name, rpc, resolved>>

evalVars == <<wf, expect, epc, ni, evlog, apiCalls, resolveCalls, e_logs, eerr>>

logVars == <<pod_spec, lpc, todo, chunks, fetches, log_text>>

parseVars == <<duration_text, ppc, parsed>>

smokeVars == <<tpc, t_now, t_deadline, t_last_phase, t_wf_name, t_phase, t_printed,
               cmds, verdict>>

vars == <<waitVars, mainVars, resolveVars, evalVars, logVars, parseVars, smokeVars>>

\* What each component leaves alone
notWaitVars == <<mainVars, resolveVars, evalVars, logVars, parseVars, smokeVars>>
notMainVars == <<waitVars, resolveVars, evalVars, logVars, parseVars, smokeVars>>
notResolveVars == <<waitVars, mainVars, evalVars, logVars, parseVars, smokeVars>>
notEvalVars == <<waitVars, resolveVars, logVars, parseVars, smokeVars>>
notLogVars == <<waitVars, mainVars, resolveVars, evalVars, parseVars, smokeVars>>
notParseVars == <<waitVars, mainVars, resolveVars, evalVars, logVars, smokeVars>>
notSmokeVars == <<waitVars, mainVars, resolveVars, evalVars, logVars, parseVars>>

---------------------------------------------------------------------------
\* Generic helpers

Range(s) == {s[i] : i \in 1..Len(s)}

Last(s) == s[Len(s)]

Max(a, b) == IF a >= b THEN a ELSE b

NoErr == [kind |-> "", msg |-> << >>]

---------------------------------------------------------------------------
\* Idle values: a component that a specification does not run

IdleWait ==
    /\ now = 0 /\ namespace = "" /\ name = "" /\ timeout_seconds = 0
    /\ deadline = 0 /\ last_phase = "" /\ wpc = "idle" /\ polls = << >>
    /\ printed = << >> /\ wret = [poll |-> 0, phase |-> ""] /\ werr = NoErr

IdleMain ==
    /\ dir = << >> /\ argName = << >> /\ argTag = {} /\ scenarios = << >>
    /\ mpc = "idle" /\ idx = 0 /\ passed = 0 /\ failed = 0
    /\ started = << >> /\ submitted = << >> /\ results = << >> /\ exitCode = -1

NoOutcome == [kind |-> "", pod |-> << >>, msg |-> << >>]

IdleResolve ==
    /\ nodes = << >> /\ wf_name = << >> /\ display_name = ""
    /\ rpc = "idle" /\ resolved = NoOutcome

IdleEval ==
    /\ wf = << >> /\ expect = << >> /\ epc = "idle" /\ ni = 0
    /\ evlog = << >> /\ apiCalls = << >> /\ resolveCalls = << >>
    /\ e_logs = << >> /\ eerr = NoErr

IdleLogs ==
    /\ pod_spec = [containers |-> << >>, init_containers |-> << >>]
    /\ lpc = "idle" /\ todo = << >> /\ chunks = << >> /\ fetches = << >>
    /\ log_text = << >>

IdleParse ==
    /\ duration_text = << >> /\ ppc = "idle" /\ parsed = [ok |-> FALSE, val |-> 0]

IdleSmoke ==
    /\ tpc = "idle" /\ t_now = 0 /\ t_deadline = 0 /\ t_last_phase = ""
    /\ t_wf_name = "" /\ t_phase = "" /\ t_printed = << >> /\ cmds = << >>
    /\ verdict = ""

---------------------------------------------------------------------------
\* wait_workflow

\* Bounds of the watcher's model
MaxTimeout == 5       \* largest timeout_seconds drawn
MaxFetchTime == 1     \* a get_workflow call takes 0..MaxFetchTime seconds
MaxOversleep == 1     \* time.sleep(2) returns after 2..2+MaxOversleep seconds

SLEEP_SECONDS == 2

Namespaces == {"argo", "dev"}
WorkflowNames == {"hello-1", "hello-2"}

\* What status.phase can hold in a fetched workflow ("" : absent or empty).
RawPhases == {"", "Pending", "Running", "Succeeded", "Failed", "Error", "Unknown"}

\* A get_workflow outcome: a workflow object, or the API call raising.
FetchOutcomes == [ok : {TRUE}, phase : RawPhases] \cup {[ok |-> FALSE, phase |-> ""]}

NoWf == [poll |-> 0, phase |-> ""]

\* phase = ((wf.get("status") or {}).get("phase")) or "Unknown"
ObservedPhase(raw) == IF raw = "" THEN "Unknown" ELSE raw

IsTerminalPhase_NoError(phase) == phase \in {"Succeeded", "Failed"}

\* if phase in ("Succeeded", "Failed", "Error")
IsTerminalPhase(phase) == phase \in {"Succeeded", "Failed", "Error"}

PhaseChanged_Always(phase, last) == TRUE

\* if phase != last_phase
PhaseChanged(phase, last) == phase # last

LoopCondition_Inclusive(t, d) == t <= d

\* while time.time() < deadline
LoopCondition(t, d) == t < d

TimeoutMessage_NoName(ns, n, t) ==
    <<"Workflow ", ns, "/", " did not finish within ", ToString(t), "s">>

\* f"Workflow {namespace}/{name} did not finish within {timeout_seconds}s"
TimeoutMessage(ns, n, t) ==
    <<"Workflow ", ns, "/", n, " did not finish within ", ToString(t), "s">>

PcAfterPoll_Retry(obs) ==
    IF ~obs.ok THEN "sleep"
    ELSE IF IsTerminalPhase(ObservedPhase(obs.phase)) THEN "returned"
    ELSE "sleep"

\* Where one loop body leaves wait_workflow: an exception of get_workflow is
\* not caught and leaves the function; a terminal phase returns; otherwise
\* the body sleeps.
PcAfterPoll(obs) ==
    IF ~obs.ok THEN "raised"
    ELSE IF IsTerminalPhase(ObservedPhase(obs.phase)) THEN "returned"
    ELSE "sleep"

InitWait ==
    /\ now = 0
    /\ namespace \in Namespaces
    /\ name \in WorkflowNames
    /\ timeout_seconds \in 0..MaxTimeout
    /\ deadline = 0
    /\ last_phase = ""
    /\ wpc = "call"
    /\ polls = << >>
    /\ printed = << >>
    /\ wret = NoWf
    /\ werr = NoErr
    /\ IdleMain
    /\ IdleResolve
    /\ IdleEval
    /\ IdleLogs
    /\ IdleParse
    /\ IdleSmoke

\* deadline = time.time() + timeout_seconds; last_phase = None
WaitEnter ==
    /\ wpc = "call"
    /\ deadline' = now + timeout_seconds
    /\ last_phase' = ""
    /\ wpc' = "loop"
    /\ UNCHANGED notWaitVars
    /\ UNCHANGED <<now, namespace, name, timeout_seconds, polls, printed, wret, werr>>

\* The while test, and the raise after the loop when it fails.
WaitLoopTest ==
    /\ wpc = "loop"
    /\ IF LoopCondition(now, deadline)
         THEN /\ wpc' = "fetch"
              /\ werr' = werr
         ELSE /\ wpc' = "timeout"
              /\ werr' = [kind |-> "TimeoutError",
                          msg |-> TimeoutMessage(namespace, name, timeout_seconds)]
    /\ UNCHANGED notWaitVars
    /\ UNCHANGED <<now, namespace, name, timeout_seconds, deadline, last_phase,
                   polls, printed, wret>>

\* One loop body up to the sleep: get_workflow, the phase notification, the
\* terminal test.
WaitPoll ==
    /\ wpc = "fetch"
    /\ \E obs \in FetchOutcomes, dt \in 0..MaxFetchTime :
         LET phase == ObservedPhase(obs.phase) IN
         /\ now' = now + dt
         /\ polls' = Append(polls, obs)
         /\ wpc' = PcAfterPoll(obs)
         /\ IF obs.ok /\ PhaseChanged(phase, last_phase)
              THEN /\ printed' = Append(printed, phase)
                   /\ last_phase' = phase
              ELSE UNCHANGED <<printed, last_phase>>
         /\ wret' = IF wpc' = "returned"
                      THEN [poll |-> Len(polls) + 1, phase |-> obs.phase]
                      ELSE wret
         /\ werr' = IF wpc' = "raised"
                      THEN [kind |-> "ApiException", msg |-> <<"get_workflow failed">>]
                      ELSE werr
    /\ UNCHANGED notWaitVars
    /\ UNCHANGED <<namespace, name, timeout_seconds, deadline>>

\* time.sleep(2)
WaitSleep ==
    /\ wpc = "sleep"
    /\ \E dt \in SLEEP_SECONDS..(SLEEP_SECONDS + MaxOversleep) : now' = now + dt
    /\ wpc' = "loop"
    /\ UNCHANGED notWaitVars
    /\ UNCHANGED <<namespace, name, timeout_seconds, deadline, last_phase,
                   polls, printed, wret, werr>>

NextWait == WaitEnter \/ WaitLoopTest \/ WaitPoll \/ WaitSleep

SpecWait == InitWait /\ [][NextWait]_vars

---------------------------------------------------------------------------
\* Properties of wait_workflow

TerminalPhases == {"Succeeded", "Failed", "Error"}

PollIsTerminal(i) == polls[i].ok /\ ObservedPhase(polls[i].phase) \in TerminalPhases

\* C1: wait_workflow returns exactly on the first poll whose phase is
\* Succeeded, Failed or Error, returns that poll's snapshot, and fetches no
\* more after it; Pending, Running, Unknown and a missing phase never return.
FirstTerminalPollReturns ==
    /\ \A i \in 1..Len(polls) : PollIsTerminal(i) => i = Len(polls)
    /\ (wpc = "returned") <=> (polls # << >> /\ PollIsTerminal(Len(polls)))
    /\ wpc = "returned" => wret = [poll |-> Len(polls), phase |-> Last(polls).phase]
    /\ wpc # "returned" => wret = NoWf

PendingRunningSucceededReturned ==
    /\ wpc = "returned"
    /\ [i \in 1..Len(polls) |-> polls[i].phase] = <<"Pending", "Running", "Succeeded">>
    /\ wret.poll = 3

\* C2 (as claimed): the timeout error carries the last observed phase and the
\* target identity.
TimeoutCarriesLastPhaseAndIdentity ==
    (wpc = "timeout" /\ last_phase # "") =>
        /\ werr.kind = "TimeoutError"
        /\ last_phase \in Range(werr.msg)
        /\ namespace \in Range(werr.msg)
        /\ name \in Range(werr.msg)

\* C2 (amended): when the deadline passes with no terminal phase observed,
\* wait_workflow raises a TimeoutError whose message carries the namespace,
\* the name and the timeout in seconds, and not the last observed phase.
TimeoutCarriesIdentityAndTimeout ==
    wpc = "timeout" =>
        /\ now >= deadline
        /\ \A i \in 1..Len(polls) : ~PollIsTerminal(i)
        /\ werr.kind = "TimeoutError"
        /\ namespace \in Range(werr.msg)
        /\ name \in Range(werr.msg)
        /\ ToString(timeout_seconds) \in Range(werr.msg)
        /\ last_phase \notin Range(werr.msg)
        /\ wret = NoWf

TimedOutWhileRunning ==
    /\ wpc = "timeout"
    /\ last_phase = "Running"
    /\ Len(polls) >= 2

\* C3 (as claimed): a failed status fetch does not end the wait.
FailedFetchIsInconclusive ==
    (polls # << >> /\ ~Last(polls).ok) => wpc \in {"sleep", "loop", "fetch", "returned"}

\* C3 (amended): a failed status fetch ends the wait at once: the error of
\* get_workflow leaves wait_workflow uncaught, no further poll is issued and
\* no snapshot is returned, even with time left before the deadline.
FailedFetchEndsWait ==
    /\ \A i \in 1..Len(polls) : ~polls[i].ok => i = Len(polls)
    /\ (wpc = "raised") <=> (polls # << >> /\ ~Last(polls).ok)
    /\ wpc = "raised" => (wret = NoWf /\ werr.kind = "ApiException")

FetchFailedWithTimeLeft ==
    /\ wpc = "raised"
    /\ Len(polls) = 2
    /\ polls[1].ok
    /\ now + SLEEP_SECONDS < deadline

---------------------------------------------------------------------------
\* load_scenarios_from_dir, main, run_one_scenario

\* Bound of the driver's model
MaxFiles == 3         \* the directory holds at most this many *.yaml files

FileNames == 1..MaxFiles     \* file names, ordered as sorted() orders paths

\* What a scenario file can hold: name, tags, and which of workflow /
\* workflowFile it sets.
Definitions ==
    { [name |-> <<"H", "i">>, tags |-> {"Smoke"}, workflow |-> TRUE, workflowFile |-> FALSE],
      [name |-> <<"b", "y">>, tags |-> {"smoke", "slow"}, workflow |-> FALSE, workflowFile |-> TRUE],
      [name |-> <<"h", "m">>, tags |-> {}, workflow |-> TRUE, workflowFile |-> TRUE],
      [name |-> <<"n", "o">>, tags |-> {}, workflow |-> FALSE, workflowFile |-> FALSE] }

\* A directory: some of the file names, each with a definition.
Directories == UNION { [S -> Definitions] : S \in SUBSET FileNames }

NameFilters == { << >>, <<"h">>, <<"B", "Y">> }
TagFilters == { {}, {"smoke"}, {"SLOW", "smoke"} }

\* What each stage of run_one_scenario can raise ("" : the scenario passed).
Stages == {"manifest", "submit", "wait", "assert"}

\* str.lower() on the characters the model uses
LowerChar(c) ==
    CASE c = "H" -> "h"
      [] c = "B" -> "b"
      [] c = "Y" -> "y"
      [] c = "S" -> "s"
      [] c = "M" -> "m"
      [] OTHER -> c

Lower(str) == [i \in 1..Len(str) |-> LowerChar(str[i])]

\* tag.lower() on the tags the model uses
LowerTag(t) ==
    CASE t = "Smoke" -> "smoke"
      [] t = "SLOW" -> "slow"
      [] OTHER -> t

\* needle in hay
Contains(hay, needle) ==
    \E i \in 0..(Len(hay) - Len(needle)) : SubSeq(hay, i + 1, i + Len(needle)) = needle

\* sorted(paths)
RECURSIVE SortedSeq(_)
SortedSeq(S) ==
    IF S = {} THEN << >>
    ELSE LET m == CHOOSE x \in S : \A y \in S : x <= y
         IN <<m>> \o SortedSeq(S \ {m})

ExactlyOneSource_AtLeastOne(d) == d.workflow \/ d.workflowFile

\* if (wf_inline is None) == (wf_file is None): raise ValueError
ExactlyOneSource(d) == d.workflow # d.workflowFile

\* The loop of load_scenarios_from_dir over the sorted paths: the first
\* definition that fails the check raises, and nothing is returned.
RECURSIVE LoadPaths(_, _, _)
LoadPaths(d, paths, acc) ==
    IF paths = << >> THEN [ok |-> TRUE, scenarios |-> acc]
    ELSE LET path == Head(paths)
             data == d[path]
         IN IF ~ExactlyOneSource(data)
              THEN [ok |-> FALSE, scenarios |-> << >>]
              ELSE LoadPaths(d, Tail(paths),
                             Append(acc, [path |-> path, name |-> data.name,
                                          tags |-> data.tags,
                                          workflow_inline |-> data.workflow,
                                          workflow_file |-> data.workflowFile]))

\* load_scenarios_from_dir: FileNotFoundError when the directory holds no
\* *.yaml file.
LoadScenariosFromDir(d) ==
    LET paths == SortedSeq(DOMAIN d)
    IN IF paths = << >> THEN [ok |-> FALSE, scenarios |-> << >>]
       ELSE LoadPaths(d, paths, << >>)

\* [s for s in scenarios if args.name.lower() in s.name.lower()]
RECURSIVE FilterByName(_, _)
FilterByName(list, n) ==
    IF list = << >> THEN << >>
    ELSE (IF Contains(Lower(Head(list).name), Lower(n)) THEN <<Head(list)>> ELSE << >>)
         \o FilterByName(Tail(list), n)

\* [s for s in scenarios if need.issubset(set(t.lower() for t in s.tags))]
RECURSIVE FilterByTags(_, _)
FilterByTags(list, need) ==
    IF list = << >> THEN << >>
    ELSE (IF need \subseteq {LowerTag(t) : t \in Head(list).tags}
            THEN <<Head(list)>> ELSE << >>)
         \o FilterByTags(Tail(list), need)

\* The two filters of main.
ApplyFilters(list, n, tags) ==
    LET byName == IF n # << >> THEN FilterByName(list, n) ELSE list
    IN IF tags # {} THEN FilterByTags(byName, {LowerTag(t) : t \in tags}) ELSE byName

ExitStatus_AlwaysZero(nfailed) == 0

\* if failed: raise SystemExit(1); falling off the end of main exits with 0
ExitStatus(nfailed) == IF nfailed # 0 THEN 1 ELSE 0

AfterRaise_Abort(i, n) == n + 1

\* The except clause of the loop ends the iteration; the for statement goes
\* on with the next scenario.
AfterRaise(i, n) == i + 1

InitMain ==
    /\ IdleWait
    /\ IdleResolve
    /\ IdleEval
    /\ IdleLogs
    /\ IdleParse
    /\ IdleSmoke
    /\ dir \in Directories
    /\ argName \in NameFilters
    /\ argTag \in TagFilters
    /\ scenarios = << >>
    /\ mpc = "load"
    /\ idx = 0
    /\ passed = 0
    /\ failed = 0
    /\ started = << >>
    /\ submitted = << >>
    /\ results = << >>
    /\ exitCode = -1

\* scenarios = load_scenarios_from_dir(args.dir); an exception is not caught
\* and ends the process with status 1.
MainLoad ==
    /\ mpc = "load"
    /\ LET r == LoadScenariosFromDir(dir) IN
         IF r.ok
           THEN /\ scenarios' = r.scenarios
                /\ mpc' = "filter"
                /\ exitCode' = exitCode
           ELSE /\ scenarios' = scenarios
                /\ mpc' = "exit"
                /\ exitCode' = 1
    /\ UNCHANGED <<dir, argName, argTag, idx, passed, failed, started, submitted, results>>
    /\ UNCHANGED notMainVars

\* The filters; SystemExit("No scenarios matched filters") is status 1.
MainFilter ==
    /\ mpc = "filter"
    /\ scenarios' = ApplyFilters(scenarios, argName, argTag)
    /\ IF scenarios' = << >>
         THEN mpc' = "exit" /\ exitCode' = 1
         ELSE mpc' = "auth" /\ exitCode' = exitCode
    /\ UNCHANGED <<dir, argName, argTag, idx, passed, failed, started, submitted, results>>
    /\ UNCHANGED notMainVars

\* load_kube_config, else load_incluster_config (whose exception is not
\* caught); then passed = failed = 0 and the loop begins.
MainAuth ==
    /\ mpc = "auth"
    /\ \E authenticated \in BOOLEAN :
         IF authenticated
           THEN mpc' = "loop" /\ idx' = 1 /\ exitCode' = exitCode
           ELSE mpc' = "exit" /\ idx' = idx /\ exitCode' = 1
    /\ passed' = 0
    /\ failed' = 0
    /\ UNCHANGED <<dir, argName, argTag, scenarios, started, submitted, results>>
    /\ UNCHANGED notMainVars

\* for s in scenarios: enter run_one_scenario, or leave the loop.
MainLoop ==
    /\ mpc = "loop"
    /\ IF idx <= Len(scenarios)
         THEN /\ mpc' = "manifest"
              /\ started' = Append(started, scenarios[idx].path)
         ELSE /\ mpc' = "summary"
              /\ started' = started
    /\ UNCHANGED <<dir, argName, argTag, scenarios, idx, passed, failed, submitted,
                   results, exitCode>>
    /\ UNCHANGED notMainVars

\* A stage raised: the except clause counts the scenario as failed.
Caught(stage) ==
    /\ failed' = failed + 1
    /\ passed' = passed
    /\ results' = Append(results, [path |-> scenarios[idx].path, ok |-> FALSE,
                                   raised |-> stage])
    /\ idx' = AfterRaise(idx, Len(scenarios))
    /\ mpc' = "loop"

\* wf = load_workflow_manifest(s): only reading workflowFile can raise.
RunManifest ==
    /\ mpc = "manifest"
    /\ \E raises \in (IF scenarios[idx].workflow_inline THEN {FALSE} ELSE BOOLEAN) :
         IF raises
           THEN Caught("manifest")
           ELSE mpc' = "submit" /\ UNCHANGED <<idx, passed, failed, results>>
    /\ UNCHANGED <<dir, argName, argTag, scenarios, started, submitted, exitCode>>
    /\ UNCHANGED notMainVars

\* created = submit_workflow(...); wf_name = created["metadata"]["name"]
RunSubmit ==
    /\ mpc = "submit"
    /\ \E raises \in BOOLEAN :
         IF raises
           THEN Caught("submit") /\ submitted' = submitted
           ELSE /\ mpc' = "wait"
                /\ submitted' = Append(submitted, scenarios[idx].path)
                /\ UNCHANGED <<idx, passed, failed, results>>
    /\ UNCHANGED <<dir, argName, argTag, scenarios, started, exitCode>>
    /\ UNCHANGED notMainVars

\* final_wf = wait_workflow(...): TimeoutError or a fetch error, or a workflow
RunWait ==
    /\ mpc = "wait"
    /\ \E raises \in BOOLEAN :
         IF raises
           THEN Caught("wait")
           ELSE mpc' = "assert" /\ UNCHANGED <<idx, passed, failed, results>>
    /\ UNCHANGED <<dir, argName, argTag, scenarios, started, submitted, exitCode>>
    /\ UNCHANGED notMainVars

\* assert_expectations(...); return True, wf_name; passed += 1.  When the
\* specification runs assert_expectations step by step, its outcome decides.
RunAssert ==
    /\ mpc = "assert"
    /\ epc \in {"idle", "raised", "returned"}
    /\ \E raises \in (IF epc = "idle" THEN BOOLEAN ELSE {epc = "raised"}) :
         IF raises
           THEN Caught("assert")
           ELSE /\ passed' = passed + 1
                /\ failed' = failed
                /\ results' = Append(results, [path |-> scenarios[idx].path,
                                               ok |-> TRUE, raised |-> ""])
                /\ idx' = idx + 1
                /\ mpc' = "loop"
    /\ UNCHANGED <<dir, argName, argTag, scenarios, started, submitted, exitCode>>
    /\ UNCHANGED notMainVars

\* The summary and the exit status.
MainSummary ==
    /\ mpc = "summary"
    /\ exitCode' = ExitStatus(failed)
    /\ mpc' = "exit"
    /\ UNCHANGED <<dir, argName, argTag, scenarios, idx, passed, failed, started,
                   submitted, results>>
    /\ UNCHANGED notMainVars

NextMain ==
    \/ MainLoad \/ MainFilter \/ MainAuth \/ MainLoop
    \/ RunManifest \/ RunSubmit \/ RunWait \/ RunAssert
    \/ MainSummary

SpecMain == InitMain /\ [][NextMain]_vars

---------------------------------------------------------------------------
\* Properties of the driver

PathsOf(list, n) == [k \in 1..n |-> list[k].path]

LoopEntered == idx >= 1

LoopLeft == mpc = "summary" \/ (mpc = "exit" /\ LoopEntered)

\* The scenarios, in list order, whose run got past the submit.
RECURSIVE PastSubmit(_, _)
PastSubmit(res, current) ==
    IF res = << >> THEN current
    ELSE (IF res[1].raised \in {"manifest", "submit"} THEN << >> ELSE <<res[1].path>>)
         \o PastSubmit(Tail(res), current)

\* C4: the driver runs every selected scenario exactly once, in list order;
\* an error in any stage of scenario k becomes a failed result for k and the
\* scenarios after k are still started, submitted and evaluated.
DriverRunsEveryScenarioOnce ==
    LoopEntered =>
        LET n == Len(scenarios)
            done == Len(results)
        IN /\ done <= n
           /\ PathsOf(results, done) = PathsOf(scenarios, done)
           /\ Len(started) \in {done, done + 1} /\ Len(started) <= n
           /\ started = PathsOf(scenarios, Len(started))
           /\ submitted = PastSubmit(results,
                             IF mpc \in {"wait", "assert"} THEN <<scenarios[idx].path>>
                             ELSE << >>)
           /\ \A k \in 1..done : results[k].ok <=> results[k].raised = ""
           /\ failed = Cardinality({k \in 1..done : ~results[k].ok})
           /\ passed = Cardinality({k \in 1..done : results[k].ok})
           /\ LoopLeft => (done = n /\ Len(started) = n)

FailuresDoNotStopLaterScenarios ==
    /\ mpc = "exit"
    /\ Len(scenarios) = 3
    /\ Len(results) = 3
    /\ results[1].raised = "submit"
    /\ results[2].raised = "wait"
    /\ results[3].ok
    /\ submitted = <<scenarios[2].path, scenarios[3].path>>

\* C5: the exit status is 0 exactly when at least one scenario was selected
\* and every selected scenario passed, and 1 otherwise (a failed scenario, no
\* scenario matching the filters).
ExitZeroIffAllSelectedPassed ==
    mpc = "exit" =>
        /\ exitCode \in {0, 1}
        /\ exitCode = 0 <=>
              /\ Len(scenarios) >= 1
              /\ Len(results) = Len(scenarios)
              /\ \A k \in 1..Len(results) : results[k].ok

ExitZeroAfterTwoPasses ==
    /\ mpc = "exit"
    /\ exitCode = 0
    /\ passed = 2
    /\ Len(scenarios) = 2

ExitOneWithoutMatch ==
    /\ mpc = "exit"
    /\ exitCode = 1
    /\ DOMAIN dir # {}
    /\ LoadScenariosFromDir(dir).ok
    /\ scenarios = << >>

---------------------------------------------------------------------------
\* parse_duration_to_seconds

Digits == {"0", "1", "2", "3", "4", "5", "6", "7", "8", "9"}

DigitValue(c) ==
    CASE c = "0" -> 0 [] c = "1" -> 1 [] c = "2" -> 2 [] c = "3" -> 3 [] c = "4" -> 4
      [] c = "5" -> 5 [] c = "6" -> 6 [] c = "7" -> 7 [] c = "8" -> 8 [] c = "9" -> 9

\* str.strip(), for the blank
RECURSIVE StripLeft(_)
StripLeft(str) ==
    IF str # << >> /\ Head(str) = " " THEN StripLeft(Tail(str)) ELSE str

RECURSIVE StripRight(_)
StripRight(str) ==
    IF str # << >> /\ str[Len(str)] = " " THEN StripRight(SubSeq(str, 1, Len(str) - 1))
    ELSE str

Strip(str) == StripRight(StripLeft(str))

\* str.endswith
EndsWith(str, suffix) ==
    Len(str) >= Len(suffix)
    /\ SubSeq(str, Len(str) - Len(suffix) + 1, Len(str)) = suffix

\* The value of a string of decimal digits.
RECURSIVE DecimalValue(_)
DecimalValue(ds) ==
    IF ds = << >> THEN 0
    ELSE 10 * DecimalValue(SubSeq(ds, 1, Len(ds) - 1)) + DigitValue(ds[Len(ds)])

\* int(text): blanks around the number are accepted; anything but decimal
\* digits raises ValueError (ok |-> FALSE).
IntOf(text) ==
    LET t == Strip(text) IN
    IF t # << >> /\ \A i \in 1..Len(t) : t[i] \in Digits
      THEN [ok |-> TRUE, val |-> DecimalValue(t)]
      ELSE [ok |-> FALSE, val |-> 0]

\* s[:-k]
DropLast(str, k) == SubSeq(str, 1, Len(str) - k)

MillisToSeconds_Ceiling(n) == Max(1, (n + 999) \div 1000)

\* max(1, int(n / 1000)), for n >= 0
MillisToSeconds(n) == Max(1, n \div 1000)

\* parse_duration_to_seconds; ok |-> FALSE is the ValueError of int()
ParseDurationToSeconds(raw) ==
    LET s == Lower(Strip(raw)) IN
    IF EndsWith(s, <<"m", "s">>)
      THEN LET n == IntOf(DropLast(s, 2))
           IN [ok |-> n.ok, val |-> IF n.ok THEN MillisToSeconds(n.val) ELSE 0]
    ELSE IF EndsWith(s, <<"s">>)
      THEN IntOf(DropLast(s, 1))
    ELSE IF EndsWith(s, <<"m">>)
      THEN LET n == IntOf(DropLast(s, 1)) IN [ok |-> n.ok, val |-> n.val * 60]
    ELSE IF EndsWith(s, <<"h">>)
      THEN LET n == IntOf(DropLast(s, 1)) IN [ok |-> n.ok, val |-> n.val * 3600]
    ELSE IntOf(s)

---------------------------------------------------------------------------
\* resolve_pod_name and its helpers

\* Bound of the resolver's model: the interpreter's recursion limit (1000
\* frames in CPython), scaled to the size of the node maps drawn.
RecursionLimit == 6

\* A node id absent from the map reads as the empty record: nodes.get(id) or {}
EmptyNode ==
    [id |-> << >>, displayName |-> "", type |-> "", phase |-> "",
     podName |-> << >>, templateName |-> << >>, children |-> << >>]

HasNode(ns, node_id) == \E i \in 1..Len(ns) : ns[i].id = node_id

\* nodes.get(node_id) or {}
GetNode(ns, node_id) ==
    IF HasNode(ns, node_id)
      THEN ns[CHOOSE i \in 1..Len(ns) : ns[i].id = node_id]
      ELSE EmptyNode

\* str.startswith
StartsWith(str, prefix) ==
    Len(str) >= Len(prefix) /\ SubSeq(str, 1, Len(prefix)) = prefix

\* [node_id for node_id, n in nodes.items() if n.get("displayName") == display_name]
RECURSIVE NodesWithDisplayName(_, _)
NodesWithDisplayName(ns, dn) ==
    IF ns = << >> THEN << >>
    ELSE (IF Head(ns).displayName = dn THEN <<Head(ns).id>> ELSE << >>)
         \o NodesWithDisplayName(Tail(ns), dn)

DerivePodNameFromPodNode_SuffixFirst(node_id, wname, template_name) ==
    IF template_name = << >> THEN << >>
    ELSE LET prefix == wname \o <<"-">> IN
         IF ~StartsWith(node_id, prefix) THEN << >>
         ELSE LET suffix == SubSeq(node_id, Len(prefix) + 1, Len(node_id)) IN
              IF suffix = << >> THEN << >>
              ELSE wname \o <<"-">> \o suffix \o <<"-">> \o template_name

\* _derive_pod_name_from_pod_node; << >> is None
DerivePodNameFromPodNode(node_id, wname, template_name) ==
    IF template_name = << >> THEN << >>
    ELSE LET prefix == wname \o <<"-">> IN
         IF ~StartsWith(node_id, prefix) THEN << >>
         ELSE LET suffix == SubSeq(node_id, Len(prefix) + 1, Len(node_id)) IN
              IF suffix = << >> THEN << >>
              ELSE wname \o <<"-">> \o template_name \o <<"-">> \o suffix

\* _pod_name_from_node; << >> is None
PodNameFromNode(ns, node_id, wname) ==
    LET n == GetNode(ns, node_id) IN
    IF n.podName # << >> THEN n.podName
    ELSE IF n.type = "Pod" THEN DerivePodNameFromPodNode(node_id, wname, n.templateName)
    ELSE << >>

ChildrenOf_Reversed(n) ==
    [i \in 1..Len(n.children) |-> n.children[Len(n.children) + 1 - i]]

\* n.get("children") or [], in the order the for statement visits them
ChildrenOf(n) == n.children

\* _find_podname_in_subtree: kind "pod" is a found name, "none" is None,
\* "RecursionError" is the interpreter giving up at its recursion limit.
RECURSIVE FindPodnameInSubtree(_, _, _, _)
RECURSIVE FindInChildren(_, _, _, _)
FindPodnameInSubtree(ns, node_id, wname, depth) ==
    IF depth > RecursionLimit THEN [kind |-> "RecursionError", pod |-> << >>]
    ELSE LET direct == PodNameFromNode(ns, node_id, wname) IN
         IF direct # << >> THEN [kind |-> "pod", pod |-> direct]
         ELSE FindInChildren(ns, ChildrenOf(GetNode(ns, node_id)), wname, depth)

\* The for loop of _find_podname_in_subtree over the children left.
FindInChildren(ns, children, wname, depth) ==
    IF children = << >> THEN [kind |-> "none", pod |-> << >>]
    ELSE LET found == FindPodnameInSubtree(ns, Head(children), wname, depth + 1) IN
         IF found.kind # "none" THEN found
         ELSE FindInChildren(ns, Tail(children), wname, depth)

\* The first for loop of resolve_pod_name over start_ids.
RECURSIVE FirstSubtreeHit(_, _, _)
FirstSubtreeHit(ns, start_ids, wname) ==
    IF start_ids = << >> THEN [kind |-> "none", pod |-> << >>]
    ELSE LET pod == FindPodnameInSubtree(ns, Head(start_ids), wname, 1) IN
         IF pod.kind # "none" THEN pod
         ELSE FirstSubtreeHit(ns, Tail(start_ids), wname)

\* The debug lines of the second AssertionError.
DebugLines(ns, start_ids) ==
    [k \in 1..Len(start_ids) |->
        LET n == GetNode(ns, start_ids[k]) IN
        [id |-> start_ids[k], type |-> n.type, templateName |-> n.templateName,
         phase |-> n.phase, children |-> Len(n.children)]]

\* resolve_pod_name
ResolvePodName(ns, wname, dn) ==
    LET start_ids == NodesWithDisplayName(ns, dn) IN
    IF start_ids = << >>
      THEN [kind |-> "AssertionError", pod |-> << >>,
            msg |-> <<"Node '", dn, "' not found in status.nodes. ">>,
            debug |-> << >>]
      ELSE LET hit == FirstSubtreeHit(ns, start_ids, wname) IN
           CASE hit.kind = "pod" ->
                  [kind |-> "return", pod |-> hit.pod, msg |-> << >>, debug |-> << >>]
             [] hit.kind = "RecursionError" ->
                  [kind |-> "RecursionError", pod |-> << >>, msg |-> << >>, debug |-> << >>]
             [] OTHER ->
                  [kind |-> "AssertionError", pod |-> << >>,
                   msg |-> <<"Node '", dn, "' found, but podName not resolvable via children.">>,
                   debug |-> DebugLines(ns, start_ids)]

\* ---- the node maps drawn ----

WfNames == { <<"w">> }

NodeId(c) == <<"w", "-", c>>

\* Ids and children lists, in the order of the mapping.
Shapes ==
    { \* a root with two children
      << [id |-> NodeId("a"), children |-> <<NodeId("b"), NodeId("c")>>],
         [id |-> NodeId("b"), children |-> << >>],
         [id |-> NodeId("c"), children |-> << >>] >>,
      \* children declared against the order of the mapping
      << [id |-> NodeId("a"), children |-> <<NodeId("c"), NodeId("b")>>],
         [id |-> NodeId("b"), children |-> << >>],
         [id |-> NodeId("c"), children |-> << >>] >>,
      \* a chain
      << [id |-> NodeId("a"), children |-> <<NodeId("b")>>],
         [id |-> NodeId("b"), children |-> <<NodeId("c")>>],
         [id |-> NodeId("c"), children |-> << >>] >>,
      \* a chain whose root comes last in the mapping
      << [id |-> NodeId("a"), children |-> << >>],
         [id |-> NodeId("b"), children |-> <<NodeId("a")>>],
         [id |-> NodeId("c"), children |-> <<NodeId("b")>>] >>,
      \* no edges
      << [id |-> NodeId("a"), children |-> << >>],
         [id |-> NodeId("b"), children |-> << >>],
         [id |-> NodeId("c"), children |-> << >>] >>,
      \* a child id that is not in the mapping
      << [id |-> NodeId("a"), children |-> <<NodeId("z"), NodeId("b")>>],
         [id |-> NodeId("b"), children |-> << >>],
         [id |-> NodeId("c"), children |-> <<NodeId("z")>>] >>,
      \* ids without the workflow prefix, and with nothing after it
      << [id |-> <<"x", "-", "a">>, children |-> <<<<"w", "-">>, NodeId("c")>>],
         [id |-> <<"w", "-">>, children |-> << >>],
         [id |-> NodeId("c"), children |-> << >>] >>,
      \* a shared child
      << [id |-> NodeId("a"), children |-> <<NodeId("c")>>],
         [id |-> NodeId("b"), children |-> <<NodeId("c")>>],
         [id |-> NodeId("c"), children |-> << >>] >>,
      \* a leaf, then a root with two children
      << [id |-> NodeId("a"), children |-> << >>],
         [id |-> NodeId("b"), children |-> <<NodeId("c"), NodeId("d")>>],
         [id |-> NodeId("c"), children |-> << >>],
         [id |-> NodeId("d"), children |-> << >>] >>,
      \* malformed: a cycle of two nodes
      << [id |-> NodeId("a"), children |-> <<NodeId("b")>>],
         [id |-> NodeId("b"), children |-> <<NodeId("a"), NodeId("c")>>],
         [id |-> NodeId("c"), children |-> << >>] >>,
      \* malformed: a node that is its own child
      << [id |-> NodeId("a"), children |-> <<NodeId("a"), NodeId("b")>>],
         [id |-> NodeId("b"), children |-> << >>],
         [id |-> NodeId("c"), children |-> << >>] >>
    }

\* What a node record can carry besides its id and children.
Profiles ==
    { [type |-> "Steps", explicit |-> FALSE, templateName |-> << >>],
      [type |-> "Steps", explicit |-> FALSE, templateName |-> <<"r">>],
      [type |-> "Pod", explicit |-> TRUE, templateName |-> <<"r">>],
      [type |-> "Steps", explicit |-> TRUE, templateName |-> << >>],
      [type |-> "Pod", explicit |-> FALSE, templateName |-> <<"r">>],
      [type |-> "Pod", explicit |-> FALSE, templateName |-> << >>] }

DisplayNames == {"s", "t"}

MakeNode(sh, prof, dn) ==
    [id |-> sh.id, displayName |-> dn, type |-> prof.type, phase |-> "Succeeded",
     podName |-> IF prof.explicit THEN <<"p">> \o sh.id ELSE << >>,
     templateName |-> prof.templateName, children |-> sh.children]

\* The map of a shape with a profile and a display name for each node.
MakeNodes(sh, prof, dn) == [i \in 1..Len(sh) |-> MakeNode(sh[i], prof[i], dn[i])]

InitResolve ==
    /\ IdleWait
    /\ IdleMain
    /\ IdleEval
    /\ IdleLogs
    /\ IdleParse
    /\ IdleSmoke
    /\ \E sh \in Shapes :
         \E prof \in [1..Len(sh) -> Profiles], dn \in [1..Len(sh) -> DisplayNames] :
            nodes = MakeNodes(sh, prof, dn)
    /\ wf_name \in WfNames
    /\ display_name \in DisplayNames \cup {"u"}
    /\ rpc = "call"
    /\ resolved = NoOutcome

\* pod_name = resolve_pod_name(nodes, wf_name, dn)
Resolve ==
    /\ rpc = "call"
    /\ resolved' = ResolvePodName(nodes, wf_name, display_name)
    /\ rpc' = "done"
    /\ UNCHANGED <<nodes, wf_name, display_name>>
    /\ UNCHANGED notResolveVars

NextResolve == Resolve

SpecResolve == InitResolve /\ [][NextResolve]_vars

---------------------------------------------------------------------------
\* Properties of resolve_pod_name

\* Index of a node id in the mapping (0 when absent).
IndexOf(ns, node_id) ==
    IF HasNode(ns, node_id) THEN CHOOSE i \in 1..Len(ns) : ns[i].id = node_id ELSE 0

\* The indices of the declared children of node i that are in the mapping.
ChildIndices(ns, i) ==
    {j \in 1..Len(ns) : \E k \in 1..Len(ns[i].children) : ns[i].children[k] = ns[j].id}

\* The indices reachable from the set S in at most `steps` more edges.
RECURSIVE Reachable(_, _, _)
Reachable(ns, S, steps) ==
    IF steps = 0 THEN S
    ELSE Reachable(ns, S \cup UNION {ChildIndices(ns, j) : j \in S}, steps - 1)

\* The data model's invariant: the children relation has no cycle.
Acyclic(ns) ==
    \A i \in 1..Len(ns) : i \notin Reachable(ns, ChildIndices(ns, i), Len(ns))

\* The ids of a subtree in pre-order, children in declared order.
RECURSIVE PreOrder(_, _)
RECURSIVE PreOrderAll(_, _)
PreOrder(ns, node_id) == <<node_id>> \o PreOrderAll(ns, GetNode(ns, node_id).children)

PreOrderAll(ns, ids) ==
    IF ids = << >> THEN << >>
    ELSE PreOrder(ns, Head(ids)) \o PreOrderAll(ns, Tail(ids))

\* The pod identities met along a sequence of ids, in order.
RECURSIVE Identities(_, _, _)
Identities(ns, ids, wname) ==
    IF ids = << >> THEN << >>
    ELSE (IF PodNameFromNode(ns, Head(ids), wname) # << >>
            THEN <<PodNameFromNode(ns, Head(ids), wname)>> ELSE << >>)
         \o Identities(ns, Tail(ids), wname)

\* Candidate roots: indices, in the order of the mapping.
CandidateRoots == {i \in 1..Len(nodes) : nodes[i].displayName = display_name}

SubtreeIdentities(i) == Identities(nodes, PreOrder(nodes, nodes[i].id), wf_name)

\* C10: on a node map that is a DAG, resolve_pod_name returns the identity of
\* the first node, in pre-order with children in declared order, of the first
\* candidate root in map order whose subtree holds an identity; it raises the
\* not-found error iff no node has the display name and the resolution error
\* iff candidates exist and no candidate subtree holds an identity.
ResolveReturnsFirstPreOrderHit ==
    (rpc = "done" /\ Acyclic(nodes)) =>
        LET withHit == {i \in CandidateRoots : SubtreeIdentities(i) # << >>}
            notFound == resolved.kind = "AssertionError" /\ resolved.debug = << >>
            unresolved == resolved.kind = "AssertionError" /\ resolved.debug # << >>
        IN /\ notFound <=> CandidateRoots = {}
           /\ unresolved <=> (CandidateRoots # {} /\ withHit = {})
           /\ withHit # {} =>
                LET first == CHOOSE i \in withHit : \A j \in withHit : i <= j
                IN /\ resolved.kind = "return"
                   /\ resolved.pod = SubtreeIdentities(first)[1]
           /\ resolved.kind \in {"return", "AssertionError"}

\* The first candidate root has no identity below it; the second finds one
\* under its second child, while another candidate after it holds one too.
SecondRootSecondChildFound ==
    /\ rpc = "done"
    /\ Acyclic(nodes)
    /\ resolved.kind = "return"
    /\ Cardinality(CandidateRoots) >= 2
    /\ LET withHit == {i \in CandidateRoots : SubtreeIdentities(i) # << >>}
           first == CHOOSE i \in withHit : \A j \in withHit : i <= j
       IN /\ \E i \in CandidateRoots : i < first
          /\ Len(nodes[first].children) = 2
          /\ PodNameFromNode(nodes, nodes[first].id, wf_name) = << >>
          /\ PodNameFromNode(nodes, nodes[first].children[1], wf_name) = << >>
          /\ resolved.pod = PodNameFromNode(nodes, nodes[first].children[2], wf_name)

---------------------------------------------------------------------------
\* read_pod_logs

\* What read_namespaced_pod can return for a pod that exists.
PodSpecs ==
    { [containers |-> <<"wait", "main", "sidecar">>, init_containers |-> << >>],
      [containers |-> <<"main", "wait">>, init_containers |-> <<"init">>],
      [containers |-> <<"wait">>, init_containers |-> << >>] }

\* What read_namespaced_pod_log can do for one container: return its text (a
\* sequence of words), or raise with a detail.
LogOutcomes ==
    { [ok |-> TRUE, text |-> <<"hello", "world">>],
      [ok |-> TRUE, text |-> <<"bye">>],
      [ok |-> FALSE, text |-> <<"404">>] }

\* [n for n in names if n != x]
RECURSIVE Without(_, _)
Without(names, x) ==
    IF names = << >> THEN << >>
    ELSE (IF Head(names) = x THEN << >> ELSE <<Head(names)>>) \o Without(Tail(names), x)

\* _order
Order(names) ==
    IF "main" \in Range(names) THEN <<"main">> \o Without(names, "main") ELSE names

\* One chunk of an init container
InitChunk(cname, out) ==
    <<" --- initContainer: ", cname, " --- ">>
    \o (IF out.ok THEN out.text
        ELSE <<"<failed to read init container logs: ">> \o out.text \o <<">">>)

Chunk_NoPlaceholder(cname, out) ==
    <<" --- container: ", cname, " --- ">> \o (IF out.ok THEN out.text ELSE << >>)

\* One chunk of a regular container
Chunk(cname, out) ==
    <<" --- container: ", cname, " --- ">>
    \o (IF out.ok THEN out.text
        ELSE <<"<failed to read container logs: ">> \o out.text \o <<">">>)

RECURSIVE InitChunks(_, _)
InitChunks(names, logOf) ==
    IF names = << >> THEN << >>
    ELSE InitChunk(Head(names), logOf[Head(names)]) \o InitChunks(Tail(names), logOf)

RECURSIVE Chunks(_, _)
Chunks(names, logOf) ==
    IF names = << >> THEN << >>
    ELSE Chunk(Head(names), logOf[Head(names)]) \o Chunks(Tail(names), logOf)

\* str.lstrip() of the joined chunks: the blank before the first header goes
LStrip(text) ==
    IF text = << >> THEN text
    ELSE <<(CASE text[1] = " --- initContainer: " -> "--- initContainer: "
              [] text[1] = " --- container: " -> "--- container: "
              [] OTHER -> text[1])>> \o Tail(text)

\* read_pod_logs, once the pod is read: the text returned
ReadPodLogs(pod, logOf) ==
    LStrip(InitChunks(Order(pod.init_containers), logOf)
           \o Chunks(Order(pod.containers), logOf))

\* read_pod_logs: the API calls it issues, in order
ReadPodLogsCalls(pod_name, pod) ==
    LET names == Order(pod.init_containers) \o Order(pod.containers) IN
    <<[op |-> "read_namespaced_pod", pod |-> pod_name, container |-> ""]>>
    \o [i \in 1..Len(names) |->
          [op |-> "read_namespaced_pod_log", pod |-> pod_name, container |-> names[i]]]

---------------------------------------------------------------------------
\* assert_expectations

\* by_display[dn]: the nodes named dn, in the order of the mapping
RECURSIVE ByDisplay(_, _)
ByDisplay(ns, dn) ==
    IF ns = << >> THEN << >>
    ELSE (IF Head(ns).displayName = dn THEN <<Head(ns)>> ELSE << >>)
         \o ByDisplay(Tail(ns), dn)

\* dn in by_display (a node with an empty displayName is not indexed)
InByDisplay(ns, dn) == dn # "" /\ ByDisplay(ns, dn) # << >>

Pass == [evaluated |-> TRUE, ok |-> TRUE, kind |-> "", msg |-> << >>]

Skipped == [evaluated |-> FALSE, ok |-> TRUE, kind |-> "", msg |-> << >>]

Raise(kind, msg) == [evaluated |-> TRUE, ok |-> FALSE, kind |-> kind, msg |-> msg]

PhaseCheck_SucceededOnly(status, exp) ==
    IF exp.workflowPhase # ""
      THEN IF status.phase # "Succeeded"
             THEN Raise("AssertionError",
                        <<"Expected workflowPhase=", exp.workflowPhase, ", got ", status.phase>>)
             ELSE Pass
      ELSE Skipped

\* 1) Workflow phase
PhaseCheck(status, exp) ==
    LET got_phase == status.phase
        exp_phase == exp.workflowPhase
    IN IF exp_phase # ""
         THEN IF got_phase # exp_phase
                THEN Raise("AssertionError",
                           <<"Expected workflowPhase=", exp_phase, ", got ",
                             IF got_phase = "" THEN "None" ELSE got_phase>>)
                ELSE Pass
         ELSE Skipped

\* f"{dur:.1f}" of a number of milliseconds: seconds with one decimal
OneDecimal(ms) ==
    LET tenths == (ms + 50) \div 100 IN
    <<ToString(tenths \div 10), ".", ToString(tenths % 10)>>

\* 2) Max duration; timestamps are in milliseconds, << >> when absent
DurationCheck(status, exp) ==
    LET max_d == exp.maxDuration IN
    IF max_d # << >> /\ status.startedAt # << >> /\ status.finishedAt # << >>
      THEN LET dur == status.finishedAt[1] - status.startedAt[1]
               bound == ParseDurationToSeconds(max_d)
           IN IF ~bound.ok
                THEN Raise("ValueError", <<"invalid literal for int()">>)
                ELSE IF dur > 1000 * bound.val
                       THEN Raise("AssertionError",
                                  <<"Expected duration <= ">> \o max_d \o <<", got ">>
                                  \o OneDecimal(dur) \o <<"s">>)
                       ELSE Pass
      ELSE Skipped

\* dn = selector.get("displayName") or n.get("displayName")
NodeDn(n) == IF n.selector # "" THEN n.selector ELSE n.displayName

\* The entry must name a node, and the name must be in the index.
NodeNameCheck(ns, n) ==
    LET dn == NodeDn(n) IN
    IF dn = ""
      THEN Raise("AssertionError", <<"Node expect entry missing displayName">>)
      ELSE IF ~InByDisplay(ns, dn)
             THEN Raise("AssertionError",
                        <<"Node '", dn, "' not found in workflow status.nodes. ">>)
             ELSE Pass

NodePhaseCheck_FirstOnly(ns, n) ==
    IF n.phase # ""
      THEN IF n.phase # ByDisplay(ns, NodeDn(n))[1].phase
             THEN Raise("AssertionError", <<"Node '", NodeDn(n), "': expected phase=", n.phase>>)
             ELSE Pass
      ELSE Skipped

\* Phase check: some node of that displayName is in the required phase
NodePhaseCheck(ns, n) ==
    LET dn == NodeDn(n)
        exp_node_phase == n.phase
        group == ByDisplay(ns, dn)
        phases == [i \in 1..Len(group) |-> group[i].phase]
    IN IF exp_node_phase # ""
         THEN IF exp_node_phase \notin Range(phases)
                THEN Raise("AssertionError",
                           <<"Node '", dn, "': expected phase=", exp_node_phase,
                             ", got phases=", ToString(phases)>>)
                ELSE Pass
         ELSE Skipped

RECURSIVE DirectPodName_SucceededOnly(_)
DirectPodName_SucceededOnly(group) ==
    IF group = << >> THEN << >>
    ELSE IF Head(group).podName # << >> /\ Head(group).phase = "Succeeded"
      THEN Head(group).podName
    ELSE DirectPodName_SucceededOnly(Tail(group))

\* The podName of the first node of the group that carries one (<< >>: none)
RECURSIVE DirectPodName(_)
DirectPodName(group) ==
    IF group = << >> THEN << >>
    ELSE IF Head(group).podName # << >> THEN Head(group).podName
    ELSE DirectPodName(Tail(group))

\* The first needle that the text lacks (<< >>: none is missing)
RECURSIVE FirstMissing(_, _)
FirstMissing(contains, text) ==
    IF contains = << >> THEN << >>
    ELSE IF ~Contains(text, Head(contains)) THEN <<Head(contains)>>
    ELSE FirstMissing(Tail(contains), text)

\* Logs check of one entry.  podRead is what read_namespaced_pod does (ok: the
\* pod), logOf what read_namespaced_pod_log does for each container.  The
\* outcome comes with the API calls issued.
LogsCheck(w, n, podRead, logOf) ==
    LET ns == w.status.nodes
        dn == NodeDn(n)
        direct == DirectPodName(ByDisplay(ns, dn))
        res == IF direct # << >>
                 THEN [kind |-> "return", pod |-> direct, msg |-> << >>]
                 ELSE ResolvePodName(ns, w.metadata.name, dn)
        resolves == direct = << >>
    IN IF n.contains = << >>
         THEN [check |-> Skipped, calls |-> << >>, resolves |-> FALSE, read |-> FALSE,
               logs |-> << >>]
       ELSE IF res.kind # "return"
         THEN [check |-> Raise(res.kind, res.msg), calls |-> << >>, resolves |-> resolves,
               read |-> FALSE, logs |-> << >>]
       ELSE IF ~podRead.ok
         THEN [check |-> Raise("ApiException", <<"read_namespaced_pod failed">>),
               calls |-> <<[op |-> "read_namespaced_pod", pod |-> res.pod, container |-> ""]>>,
               resolves |-> resolves, read |-> FALSE, logs |-> << >>]
       ELSE LET logs == ReadPodLogs(podRead.pod, logOf)
                missing == FirstMissing(n.contains, logs)
            IN [check |-> IF missing # << >>
                            THEN Raise("AssertionError",
                                       <<"Node '", dn, "': expected logs to contain '">>
                                       \o missing[1]
                                       \o <<"', but not found.", "--- logs ---">>
                                       \o logs)
                            ELSE Pass,
                calls |-> ReadPodLogsCalls(res.pod, podRead.pod),
                resolves |-> resolves, read |-> TRUE, logs |-> logs]

AfterCheck_KeepGoing(ok, next) == next

\* A check that fails raises and leaves assert_expectations; one that passes
\* goes on to the next statement.
AfterCheck(ok, next) == IF ok THEN next ELSE "raised"

\* What one check adds to the record of evaluated checks.
Logged(check, node, r) ==
    IF r.evaluated THEN Append(evlog, [check |-> check, node |-> node, ok |-> r.ok])
    ELSE evlog

Raised(r) == IF r.ok THEN eerr ELSE [kind |-> r.kind, msg |-> r.msg]

\* lines 265-271
EvalPhase ==
    /\ epc = "phase"
    /\ LET r == PhaseCheck(wf.status, expect) IN
         /\ evlog' = Logged("phase", 0, r)
         /\ epc' = AfterCheck(r.ok, "duration")
         /\ eerr' = Raised(r)
    /\ UNCHANGED <<wf, expect, ni, apiCalls, resolveCalls, e_logs>>
    /\ UNCHANGED <<mainVars, notEvalVars>>

\* lines 273-280
EvalDuration ==
    /\ epc = "duration"
    /\ LET r == DurationCheck(wf.status, expect) IN
         /\ evlog' = Logged("duration", 0, r)
         /\ epc' = AfterCheck(r.ok, "nodes")
         /\ eerr' = Raised(r)
    /\ UNCHANGED <<wf, expect, ni, apiCalls, resolveCalls, e_logs>>
    /\ UNCHANGED <<mainVars, notEvalVars>>

\* lines 282-296: return when no node expectation is declared, else enter the
\* loop over them
EvalNodes ==
    /\ epc = "nodes"
    /\ IF expect.nodes = << >>
         THEN epc' = "returned" /\ ni' = ni
         ELSE epc' = "node_name" /\ ni' = 1
    /\ UNCHANGED <<wf, expect, evlog, apiCalls, resolveCalls, e_logs, eerr>>
    /\ UNCHANGED <<mainVars, notEvalVars>>

\* lines 297-307
EvalNodeName ==
    /\ epc = "node_name"
    /\ LET r == NodeNameCheck(wf.status.nodes, expect.nodes[ni]) IN
         /\ evlog' = Logged("name", ni, r)
         /\ epc' = AfterCheck(r.ok, "node_phase")
         /\ eerr' = Raised(r)
    /\ UNCHANGED <<wf, expect, ni, apiCalls, resolveCalls, e_logs>>
    /\ UNCHANGED <<mainVars, notEvalVars>>

\* lines 309-314
EvalNodePhase ==
    /\ epc = "node_phase"
    /\ LET r == NodePhaseCheck(wf.status.nodes, expect.nodes[ni]) IN
         /\ evlog' = Logged("node_phase", ni, r)
         /\ epc' = AfterCheck(r.ok, "node_logs")
         /\ eerr' = Raised(r)
    /\ UNCHANGED <<wf, expect, ni, apiCalls, resolveCalls, e_logs>>
    /\ UNCHANGED <<mainVars, notEvalVars>>

\* lines 316-338, and the step of the for loop to the next entry
EvalNodeLogs ==
    /\ epc = "node_logs"
    /\ \E podRead \in {[ok |-> FALSE, pod |-> << >>]} \cup [ok : {TRUE}, pod : PodSpecs] :
       \E logOf \in [IF podRead.ok
                       THEN Range(podRead.pod.containers) \cup Range(podRead.pod.init_containers)
                       ELSE {} -> LogOutcomes] :
         LET r == LogsCheck(wf, expect.nodes[ni], podRead, logOf)
             more == ni < Len(expect.nodes)
         IN /\ evlog' = Logged("logs", ni, r.check)
            /\ apiCalls' = apiCalls \o [i \in 1..Len(r.calls) |->
                                          [node |-> ni, call |-> r.calls[i]]]
            /\ resolveCalls' = IF r.resolves THEN Append(resolveCalls, ni) ELSE resolveCalls
            /\ e_logs' = IF r.read THEN r.logs ELSE e_logs
            /\ epc' = AfterCheck(r.check.ok, IF more THEN "node_name" ELSE "returned")
            /\ ni' = IF r.check.ok /\ more THEN ni + 1 ELSE ni
            /\ eerr' = Raised(r.check)
    /\ UNCHANGED <<wf, expect>>
    /\ UNCHANGED <<mainVars, notEvalVars>>

\* ---- the inputs drawn ----

Node(node_id, dn, type, phase, podName, templateName, children) ==
    [id |-> node_id, displayName |-> dn, type |-> type, phase |-> phase,
     podName |-> podName, templateName |-> templateName, children |-> children]

\* A retried step: two attempts share the display name; the one that
\* succeeded carries its podName.
RetryMap ==
    << Node(NodeId("a"), "retry-step", "Pod", "Failed", << >>, <<"r">>, << >>),
       Node(NodeId("b"), "retry-step", "Pod", "Succeeded", <<"p", "b">>, <<"r">>, << >>) >>

\* Two attempts that both carry a podName, the failed one first.
FailedFirstMap ==
    << Node(NodeId("a"), "retry-step", "Pod", "Failed", <<"p", "a">>, <<"r">>, << >>),
       Node(NodeId("b"), "retry-step", "Pod", "Succeeded", <<"p", "b">>, <<"r">>, << >>) >>

\* A steps node over a pod node whose podName must be derived.
StepMap ==
    << Node(NodeId("a"), "s", "Steps", "Succeeded", << >>, << >>, <<NodeId("b")>>),
       Node(NodeId("b"), "s(0)", "Pod", "Succeeded", << >>, <<"r">>, << >>) >>

\* A steps node with nothing below it.
BareMap ==
    << Node(NodeId("a"), "s", "Steps", "Succeeded", << >>, << >>, << >>) >>

Entry(selector, dn, phase, contains) ==
    [selector |-> selector, displayName |-> dn, phase |-> phase, contains |-> contains]

\* expect.maxDuration values ("1500ms", ...); << >> is an absent bound
Durations ==
    { <<"1", "5", "0", "0", "m", "s">>, <<"5", "0", "0", "m", "s">>,
      <<"2", "0", "0", "0", "m", "s">>, <<"9", "9", "9", "m", "s">>,
      <<"2", "s">>, <<"0", "s">>, <<"1", "m">>, <<"1", "h">>, <<"2">>,
      <<" ", "2", "S", " ">>, <<"1", "M">>,
      <<"2", "d">>, <<"s">>, <<"1", ".", "5", "s">> }

\* status.finishedAt values, in milliseconds after a startedAt of 0
FinishTimes ==
    { 500, 1000, 1001, 1200, 1500, 2000, 2001, 60000, 60001, 3600000, 3600001 }

MakeWf(phase, startedAt, finishedAt, ns) ==
    [metadata |-> [namespace |-> "argo", name |-> <<"w">>],
     status |-> [phase |-> phase, startedAt |-> startedAt, finishedAt |-> finishedAt,
                 nodes |-> ns]]

MakeExpect(workflowPhase, maxDuration, entries) ==
    [workflowPhase |-> workflowPhase, maxDuration |-> maxDuration, nodes |-> entries]

\* Inputs that vary the workflow phase against the declared one.
PhaseInputs ==
    \E got \in {"Succeeded", "Failed", "Error"},
       declared \in {"", "Succeeded", "Failed", "Error", "Running"},
       max_d \in {<< >>, <<"2", "s">>},
       t_end \in {1000, 3000},
       entries \in { << >>,
                     <<Entry("retry-step", "", "Succeeded", << >>)>>,
                     <<Entry("retry-step", "", "", <<<<"hello">>>>)>> } :
        /\ wf = MakeWf(got, <<0>>, <<t_end>>, RetryMap)
        /\ expect = MakeExpect(declared, max_d, entries)

\* Inputs that vary the bound and the timestamps.
DurationInputs ==
    \E declared \in {"", "Succeeded"},
       max_d \in Durations \cup {<< >>},
       t_start \in {<< >>, <<0>>},
       t_end \in {<< >>} \cup {<<t>> : t \in FinishTimes} :
        /\ wf = MakeWf("Succeeded", t_start, t_end, << >>)
        /\ expect = MakeExpect(declared, max_d, << >>)

\* Inputs that vary the nodes' names and phases against one or two entries.
NodePhaseInputs ==
    \E dn \in [1..3 -> {"s", "t", ""}],
       phase \in [1..3 -> {"Succeeded", "Failed"}],
       first \in { Entry(sel, "", ph, << >>) :
                      sel \in {"s", "t", "u"}, ph \in {"", "Succeeded", "Failed"} }
                 \cup { Entry("", "t", "Failed", << >>), Entry("", "", "Succeeded", << >>) },
       rest \in { << >> } \cup { <<Entry(sel, "", "Succeeded", << >>)>> : sel \in {"s", "t"} } :
        /\ wf = MakeWf("Succeeded", << >>, << >>,
                       [i \in 1..3 |->
                          Node(NodeId(<<"a", "b", "c">>[i]), dn[i], "Pod", phase[i],
                               << >>, << >>, << >>)])
        /\ expect = MakeExpect("", << >>, <<first>> \o rest)

NeedleLists ==
    { <<<<"hello">>>>, <<<<"hello">>, <<"bye">>>>, <<<<"bye">>, <<"hello", "world">>>> }

\* Inputs that declare log expectations.
LogInputs ==
    \E ns \in {RetryMap, FailedFirstMap, StepMap, BareMap},
       first \in { Entry(sel, "", ph, c) :
                      sel \in {"retry-step", "s"}, ph \in {"", "Succeeded"},
                      c \in NeedleLists \cup {<< >>} },
       rest \in { << >> } \cup { <<Entry(sel, "", "", <<<<"hello">>>>)>> :
                                    sel \in {"retry-step", "s"} } :
        /\ wf = MakeWf("Succeeded", << >>, << >>, ns)
        /\ expect = MakeExpect("Succeeded", << >>, <<first>> \o rest)

\* The one scenario whose expectations are evaluated
OneScenarioDir ==
    [f \in {1} |-> [name |-> <<"H", "i">>, tags |-> {"Smoke"},
                    workflow |-> TRUE, workflowFile |-> FALSE]]

\* main has submitted the scenario and wait_workflow has returned its final
\* workflow: assert_expectations is entered.
InitEval ==
    /\ IdleWait
    /\ IdleResolve
    /\ IdleLogs
    /\ IdleParse
    /\ IdleSmoke
    /\ dir = OneScenarioDir
    /\ argName = << >>
    /\ argTag = {}
    /\ scenarios = LoadScenariosFromDir(OneScenarioDir).scenarios
    /\ mpc = "assert"
    /\ idx = 1
    /\ passed = 0
    /\ failed = 0
    /\ started = <<1>>
    /\ submitted = <<1>>
    /\ results = << >>
    /\ exitCode = -1
    /\ PhaseInputs \/ DurationInputs \/ NodePhaseInputs \/ LogInputs
    /\ epc = "phase"
    /\ ni = 0
    /\ evlog = << >>
    /\ apiCalls = << >>
    /\ resolveCalls = << >>
    /\ e_logs = << >>
    /\ eerr = NoErr

NextEval ==
    \/ EvalPhase \/ EvalDuration \/ EvalNodes
    \/ EvalNodeName \/ EvalNodePhase \/ EvalNodeLogs
    \/ RunAssert \/ MainLoop \/ MainSummary

SpecEval == InitEval /\ [][NextEval]_vars

---------------------------------------------------------------------------
\* Properties of assert_expectations

\* The place of a check in the order of the code: workflow phase, duration,
\* then for the k-th node expectation its name lookup, phase and logs.
Rank(e) ==
    CASE e.check = "phase" -> 1
      [] e.check = "duration" -> 2
      [] e.check = "name" -> 3 * e.node
      [] e.check = "node_phase" -> 3 * e.node + 1
      [] e.check = "logs" -> 3 * e.node + 2

HasEntry(check, node) ==
    \E i \in 1..Len(evlog) : evlog[i].check = check /\ evlog[i].node = node

EntryOf(check, node) ==
    evlog[CHOOSE i \in 1..Len(evlog) : evlog[i].check = check /\ evlog[i].node = node]

\* The checks evaluated so far were evaluated in the order of the code, no
\* check twice, and a node expectation only after the name lookups of all the
\* node expectations declared before it.
ChecksInOrder ==
    /\ \A i \in 1..(Len(evlog) - 1) : Rank(evlog[i]) < Rank(evlog[i + 1])
    /\ \A i \in 1..Len(evlog) :
         evlog[i].node > 0 =>
           /\ evlog[i].node <= Len(expect.nodes)
           /\ \A k \in 1..evlog[i].node : HasEntry("name", k)

\* Only the last check evaluated can have failed, and evaluation has then
\* left assert_expectations with its error.
StopsAtFirstFailure ==
    /\ \A i \in 1..Len(evlog) :
         ~evlog[i].ok => i = Len(evlog) /\ epc = "raised" /\ eerr # NoErr
    /\ epc = "raised" => evlog # << >> /\ ~Last(evlog).ok

\* Pod reads and log fetches are issued only by log checks that were
\* evaluated: none for a check after the one that failed.
CallsOnlyFromEvaluatedChecks ==
    \A i \in 1..Len(apiCalls) : HasEntry("logs", apiCalls[i].node)

\* C6: assert_expectations evaluates its checks in the fixed order workflow
\* phase, duration, node expectations in declared order (name lookup, phase,
\* logs within one), and stops at the first unmet expectation: after a
\* failure no later check is evaluated and no pod read or log fetch is issued.
ChecksInOrderAndShortCircuit ==
    /\ [](ChecksInOrder /\ StopsAtFirstFailure /\ CallsOnlyFromEvaluatedChecks)
    /\ [][epc = "raised" => (epc' = "raised" /\ evlog' = evlog /\ apiCalls' = apiCalls)]_vars

\* C6 witness: the first node expectation passed its checks and read its
\* pod's logs; the name lookup of the second failed, and the log expectation
\* the second declares caused no pod read.
SecondNodeFailedAfterFirstRead ==
    /\ epc = "raised"
    /\ Len(expect.nodes) = 2
    /\ expect.nodes[2].contains # << >>
    /\ Last(evlog) = [check |-> "name", node |-> 2, ok |-> FALSE]
    /\ HasEntry("node_phase", 1)
    /\ HasEntry("logs", 1)
    /\ Len(apiCalls) > 1
    /\ \A i \in 1..Len(apiCalls) : apiCalls[i].node = 1

\* Evaluation failed at the phase step.
FailedAtPhaseStep ==
    /\ epc = "raised"
    /\ evlog = <<[check |-> "phase", node |-> 0, ok |-> FALSE]>>

\* main has recorded the outcome of the scenario under evaluation.
OutcomeRecorded == epc \in {"raised", "returned"} /\ Len(results) = 1

\* C7: with a declared target phase P and a final workflow phase Q the
\* evaluation fails at the phase step iff P differs from Q; the scenario is
\* then counted as failed and the message names P and Q; with no target phase
\* declared the phase step never fails.
PhaseStepFailsIffPhasesDiffer ==
    LET P == expect.workflowPhase
        Q == wf.status.phase
    IN epc \notin {"idle", "phase"} =>
         /\ FailedAtPhaseStep <=> (P # "" /\ P # Q)
         /\ FailedAtPhaseStep =>
              /\ eerr.kind = "AssertionError"
              /\ P \in Range(eerr.msg)
              /\ Q \in Range(eerr.msg)
         /\ (FailedAtPhaseStep /\ OutcomeRecorded) =>
              /\ ~results[1].ok
              /\ failed = 1
              /\ passed = 0
         /\ P = "" => ~HasEntry("phase", 0)

\* C7 witness: declared Succeeded, final phase Failed, and the scenario is
\* counted as failed.
DeclaredSucceededGotFailed ==
    /\ expect.workflowPhase = "Succeeded"
    /\ wf.status.phase = "Failed"
    /\ FailedAtPhaseStep
    /\ OutcomeRecorded
    /\ failed = 1

\* The bound a duration string declares, in seconds, milliseconds rounded up
\* to whole seconds.
DeclaredBoundSeconds(raw) ==
    LET s == Lower(Strip(raw)) IN
    IF EndsWith(s, <<"m", "s">>)
      THEN MillisToSeconds_Ceiling(IntOf(DropLast(s, 2)).val)
      ELSE ParseDurationToSeconds(raw).val

\* C8: the duration check is evaluated only when a bound is declared and both
\* timestamps are present, and it fails iff the elapsed time finish - start is
\* strictly greater than the declared bound, whatever unit the bound is in.
DurationFailsIffElapsedExceedsBound ==
    LET status == wf.status
        max_d == expect.maxDuration
        applies == max_d # << >> /\ status.startedAt # << >> /\ status.finishedAt # << >>
    IN (epc \notin {"idle", "phase", "duration"} /\ ~FailedAtPhaseStep) =>
         /\ HasEntry("duration", 0) <=> applies
         /\ (applies /\ ParseDurationToSeconds(max_d).ok) =>
              (~EntryOf("duration", 0).ok
                 <=> status.finishedAt[1] - status.startedAt[1]
                       > 1000 * DeclaredBoundSeconds(max_d))

\* The nodes of the workflow named dn that are in the phase ph
NodesNamedInPhase(dn, ph) ==
    { i \in 1..Len(wf.status.nodes) :
        wf.status.nodes[i].displayName = dn /\ wf.status.nodes[i].phase = ph }

\* C9: a node expectation with a required phase passes its phase check iff at
\* least one node whose displayName equals the selector has exactly that
\* phase; a check is made for every required phase whose name lookup passed.
NodePhasePassesIffSomeNodeHasPhase ==
    /\ \A i \in 1..Len(evlog) :
         evlog[i].check = "node_phase" =>
           LET n == expect.nodes[evlog[i].node] IN
           /\ n.phase # ""
           /\ evlog[i].ok <=> NodesNamedInPhase(NodeDn(n), n.phase) # {}
    /\ \A k \in 1..Len(expect.nodes) :
         (expect.nodes[k].phase # "" /\ HasEntry("name", k) /\ EntryOf("name", k).ok
            /\ (ni > k \/ epc \in {"node_logs", "raised", "returned"}))
           => HasEntry("node_phase", k)

\* C9 witness: two nodes share a displayName with phases Failed, Succeeded in
\* this order, and the required phase Succeeded passed.
FailedThenSucceededSatisfies ==
    \E i \in 1..Len(evlog) :
      /\ evlog[i].check = "node_phase"
      /\ evlog[i].ok
      /\ LET n == expect.nodes[evlog[i].node]
             group == ByDisplay(wf.status.nodes, NodeDn(n))
         IN /\ n.phase = "Succeeded"
            /\ Len(group) = 2
            /\ group[1].phase = "Failed"
            /\ group[2].phase = "Succeeded"

---------------------------------------------------------------------------
\* resolve_pod_name on malformed node maps

\* C11: resolve_pod_name ends, for every finite node map, cyclic ones
\* included, with a pod identity or with one of its two resolution errors:
\* the subtree search never goes round a cycle of children.
ResolveEndsWithPodOrResolutionError ==
    rpc = "done" => resolved.kind \in {"return", "AssertionError"}

---------------------------------------------------------------------------
\* Properties of _pod_name_from_node

\* The identity a node record yields by itself: its explicit podName, else
\* for a Pod node with a templateName T and an id W-S with S non-empty the
\* name W-T-S, else none (<< >>).
OwnIdentity(n, W) ==
    IF n.podName # << >> THEN n.podName
    ELSE IF /\ n.type = "Pod"
            /\ n.templateName # << >>
            /\ \E k \in 2..Len(n.id) : n.id = W \o <<"-">> \o SubSeq(n.id, k, Len(n.id))
      THEN LET k == CHOOSE k \in 2..Len(n.id) :
                      n.id = W \o <<"-">> \o SubSeq(n.id, k, Len(n.id))
           IN W \o <<"-">> \o n.templateName \o <<"-">> \o SubSeq(n.id, k, Len(n.id))
      ELSE << >>

\* C12: a node's own pod identity is its explicit podName when it has one;
\* otherwise W-T-S when the node is of type Pod, has a templateName T and an
\* id W-S with S non-empty; otherwise the node yields none.  A candidate root
\* with an identity of its own resolves to it.
OwnPodIdentityIsExplicitOrDerived ==
    rpc = "done" =>
      /\ \A i \in 1..Len(nodes) :
           PodNameFromNode(nodes, nodes[i].id, wf_name) = OwnIdentity(nodes[i], wf_name)
      /\ \A i \in CandidateRoots :
           (OwnIdentity(nodes[i], wf_name) # << >> /\ \A j \in CandidateRoots : i <= j)
             => resolved = [kind |-> "return", pod |-> OwnIdentity(nodes[i], wf_name),
                            msg |-> << >>, debug |-> << >>]

\* C12 witness: the node w-a of workflow w, of type Pod with template r and
\* no podName, resolved to w-r-a, while a node of another type carries an
\* explicit podName.
DerivedFromTemplateAndSuffix ==
    /\ rpc = "done"
    /\ nodes[1].id = <<"w", "-", "a">>
    /\ nodes[1].displayName = display_name
    /\ nodes[1].type = "Pod"
    /\ nodes[1].podName = << >>
    /\ nodes[1].templateName = <<"r">>
    /\ resolved.kind = "return"
    /\ resolved.pod = <<"w", "-", "r", "-", "a">>
    /\ \E i \in 2..Len(nodes) : nodes[i].type = "Steps" /\ nodes[i].podName # << >>

---------------------------------------------------------------------------
\* read_pod_logs, statement by statement

\* The pods read: container names are unique within a pod.
LogPods ==
    { [containers |-> c, init_containers |-> i] :
        c \in { <<"wait", "main", "sidecar">>, <<"main", "wait">>, <<"wait">>,
                <<"wait", "sidecar", "main">> },
        i \in { << >>, <<"init">>, <<"init", "setup">> } }
    \cup { [containers |-> <<"wait", "sidecar">>, init_containers |-> <<"setup", "main">>],
           [containers |-> <<"wait">>, init_containers |-> <<"setup", "main", "init">>] }

\* "".join(chunks)
RECURSIVE Join(_)
Join(chs) == IF chs = << >> THEN << >> ELSE Head(chs) \o Join(Tail(chs))

\* Where read_pod_logs goes when the init loop has `rest` left
AfterInit(rest) == IF rest = << >> THEN "containers" ELSE "inits"

InitLogs ==
    /\ IdleWait
    /\ IdleMain
    /\ IdleResolve
    /\ IdleEval
    /\ IdleParse
    /\ IdleSmoke
    /\ pod_spec \in LogPods
    /\ lpc = "read_pod"
    /\ todo = << >>
    /\ chunks = << >>
    /\ fetches = << >>
    /\ log_text = << >>

\* lines 139-153: read the pod (an error of the call leaves read_pod_logs),
\* order the two lists of names
LogsReadPod ==
    /\ lpc = "read_pod"
    /\ \E ok \in BOOLEAN :
         IF ok
           THEN LET ordered_inits == Order(pod_spec.init_containers) IN
                /\ lpc' = AfterInit(ordered_inits)
                /\ todo' = IF ordered_inits = << >> THEN Order(pod_spec.containers)
                           ELSE ordered_inits
           ELSE lpc' = "raised" /\ todo' = todo
    /\ UNCHANGED <<pod_spec, chunks, fetches, log_text>>
    /\ UNCHANGED notLogVars

\* lines 156-166: one iteration of the loop over the init containers
LogsInitFetch ==
    /\ lpc = "inits"
    /\ \E out \in LogOutcomes :
         /\ fetches' = Append(fetches, [container |-> Head(todo), out |-> out])
         /\ chunks' = Append(chunks, InitChunk(Head(todo), out))
    /\ lpc' = AfterInit(Tail(todo))
    /\ todo' = IF Tail(todo) = << >> THEN Order(pod_spec.containers) ELSE Tail(todo)
    /\ UNCHANGED <<pod_spec, log_text>>
    /\ UNCHANGED notLogVars

\* lines 169-179: one iteration of the loop over the regular containers
LogsFetch ==
    /\ lpc = "containers"
    /\ todo # << >>
    /\ \E out \in LogOutcomes :
         /\ fetches' = Append(fetches, [container |-> Head(todo), out |-> out])
         /\ chunks' = Append(chunks, Chunk(Head(todo), out))
    /\ todo' = Tail(todo)
    /\ UNCHANGED <<pod_spec, lpc, log_text>>
    /\ UNCHANGED notLogVars

\* line 181
LogsReturn ==
    /\ lpc = "containers"
    /\ todo = << >>
    /\ log_text' = LStrip(Join(chunks))
    /\ lpc' = "done"
    /\ UNCHANGED <<pod_spec, todo, chunks, fetches>>
    /\ UNCHANGED notLogVars

NextLogs == LogsReadPod \/ LogsInitFetch \/ LogsFetch \/ LogsReturn

SpecLogs == InitLogs /\ [][NextLogs]_vars

---------------------------------------------------------------------------
\* Properties of read_pod_logs

\* The container each section is about, in the order of the sections
SectionNames == [i \in 1..Len(chunks) |-> chunks[i][2]]

\* Whether each section is one of an init container
SectionIsInit == [i \in 1..Len(chunks) |-> chunks[i][1] = " --- initContainer: "]

\* A list of names with main moved to the front, the rest as they were
MainFirst(names) ==
    IF "main" \in Range(names)
      THEN <<"main">> \o SelectSeq(names, LAMBDA n : n # "main")
      ELSE names

\* C13: the aggregated log has one section per container: the init
\* containers in their declared order, then the regular containers with main
\* first and the others in their relative order; init containers are never
\* reordered.
SectionsInitDeclaredThenMainFirst ==
    lpc = "done" =>
      /\ SectionNames = pod_spec.init_containers \o MainFirst(pod_spec.containers)
      /\ \A i \in 1..Len(chunks) : SectionIsInit[i] <=> i <= Len(pod_spec.init_containers)

\* The outcome of the fetch of each container fetched so far
FetchOutcomeOf == [c \in {fetches[i].container : i \in 1..Len(fetches)} |->
                     fetches[CHOOSE i \in 1..Len(fetches) : fetches[i].container = c].out]

\* C14: whatever log fetches fail, read_pod_logs returns: each container is
\* fetched exactly once, a failed fetch leaves a placeholder with the failure
\* detail in the place of the text, and the sections are as many and in the
\* same order as when no fetch fails.
FetchFailuresBecomePlaceholders ==
    /\ lpc = "raised" => fetches = << >>
    /\ Len(chunks) = Len(fetches)
    /\ \A i \in 1..Len(fetches) :
         LET out == fetches[i].out
             body == SubSeq(chunks[i], 4, Len(chunks[i]))
         IN /\ chunks[i][2] = fetches[i].container
            /\ chunks[i][3] = " --- "
            /\ out.ok => body = out.text
            /\ ~out.ok => /\ Len(body) = Len(out.text) + 2
                          /\ body[1] \in {"<failed to read container logs: ",
                                          "<failed to read init container logs: "}
                          /\ SubSeq(body, 2, Len(body) - 1) = out.text
    /\ lpc = "done" =>
         /\ \A c \in Range(pod_spec.init_containers) \cup Range(pod_spec.containers) :
              Cardinality({i \in 1..Len(fetches) : fetches[i].container = c}) = 1
         /\ SectionNames = Order(pod_spec.init_containers) \o Order(pod_spec.containers)
         /\ log_text = ReadPodLogs(pod_spec, FetchOutcomeOf)

\* C14 witness: the first fetch and a later one failed, one in between
\* succeeded, and the text was returned with a section for each.
ReturnedDespiteFailedFetches ==
    /\ lpc = "done"
    /\ Len(fetches) >= 3
    /\ ~fetches[1].out.ok
    /\ fetches[2].out.ok
    /\ ~fetches[3].out.ok
    /\ Len(chunks) = Len(pod_spec.init_containers) + Len(pod_spec.containers)

---------------------------------------------------------------------------
\* parse_duration_to_seconds, called on the durations drawn

\* The non-negative integers written in the duration strings drawn
DurationNumbers == (0..12) \cup {42, 59, 60, 999, 1000, 1001, 1500, 1999, 2000, 3600}

\* The suffixes the parser accepts; << >> is the bare integer
DurationSuffixes == { <<"m", "s">>, <<"s">>, <<"m">>, <<"h">>, << >> }

\* str(n) of a non-negative integer
RECURSIVE Decimal(_)
Decimal(n) ==
    LET d == <<"0", "1", "2", "3", "4", "5", "6", "7", "8", "9">>[(n % 10) + 1] IN
    IF n < 10 THEN <<d>> ELSE Decimal(n \div 10) \o <<d>>

InitParse ==
    /\ IdleWait
    /\ IdleMain
    /\ IdleResolve
    /\ IdleEval
    /\ IdleLogs
    /\ IdleSmoke
    /\ \/ \E n \in DurationNumbers, suffix \in DurationSuffixes :
            duration_text = Decimal(n) \o suffix
       \/ duration_text \in Durations
    /\ ppc = "call"
    /\ parsed = [ok |-> FALSE, val |-> 0]

\* timeout_seconds = parse_duration_to_seconds(...)
Parse ==
    /\ ppc = "call"
    /\ parsed' = ParseDurationToSeconds(duration_text)
    /\ ppc' = "done"
    /\ UNCHANGED duration_text
    /\ UNCHANGED notParseVars

NextParse == Parse

SpecParse == InitParse /\ [][NextParse]_vars

---------------------------------------------------------------------------
\* Properties of parse_duration_to_seconds

Returned(seconds) == parsed = [ok |-> TRUE, val |-> seconds]

\* C15: for every non-negative integer n, parse_duration_to_seconds maps
\* "n ms" to max(1, ceiling(n/1000)), "ns" to n, "nm" to 60*n, "nh" to 3600*n
\* and the bare integer n to n.
ParsesEveryUnitWithMillisRoundedUp ==
    ppc = "done" =>
      \A n \in DurationNumbers :
        /\ duration_text = Decimal(n) \o <<"m", "s">> => Returned(MillisToSeconds_Ceiling(n))
        /\ duration_text = Decimal(n) \o <<"s">> => Returned(n)
        /\ duration_text = Decimal(n) \o <<"m">> => Returned(60 * n)
        /\ duration_text = Decimal(n) \o <<"h">> => Returned(3600 * n)
        /\ duration_text = Decimal(n) => Returned(n)

---------------------------------------------------------------------------
\* Properties of load_scenarios_from_dir

\* Every definition of the directory sets one of workflow / workflowFile and
\* not the other.
EveryDefinitionHasOneSource ==
    \A f \in DOMAIN dir :
        (dir[f].workflow \/ dir[f].workflowFile) /\ ~(dir[f].workflow /\ dir[f].workflowFile)

\* One scenario per definition of the directory, in file-name order.
OneScenarioPerDefinition(list) ==
    /\ Len(list) = Cardinality(DOMAIN dir)
    /\ \A k \in 1..Len(list) :
         /\ list[k].path \in DOMAIN dir
         /\ list[k].name = dir[list[k].path].name
         /\ list[k].tags = dir[list[k].path].tags
         /\ list[k].workflow_inline = dir[list[k].path].workflow
         /\ list[k].workflow_file = dir[list[k].path].workflowFile
    /\ \A k \in 1..(Len(list) - 1) : list[k].path < list[k + 1].path

---------------------------------------------------------------------------
\* Properties of the watcher's notifications and of its deadline

\* The phases observed by the polls that returned a workflow, a missing
\* phase counted as Unknown
RECURSIVE ObservedPhases(_)
ObservedPhases(ps) ==
    IF ps = << >> THEN << >>
    ELSE (IF Head(ps).ok
            THEN <<IF Head(ps).phase = "" THEN "Unknown" ELSE Head(ps).phase>>
            ELSE << >>)
         \o ObservedPhases(Tail(ps))

\* A sequence without the elements equal to their predecessor
RECURSIVE Changes(_)
Changes(seq) ==
    IF Len(seq) <= 1 THEN seq
    ELSE LET front == SubSeq(seq, 1, Len(seq) - 1) IN
         IF seq[Len(seq)] = seq[Len(seq) - 1] THEN Changes(front)
         ELSE Append(Changes(front), seq[Len(seq)])

\* C17: wait_workflow emits a phase notification on a poll iff the phase
\* observed (a missing one counted as Unknown) differs from the one observed
\* on the poll before, the first poll always emitting; so no two notifications
\* in a row carry the same phase.
NotifiesExactlyOnPhaseChange ==
    /\ printed = Changes(ObservedPhases(polls))
    /\ \A i \in 1..(Len(printed) - 1) : printed[i] # printed[i + 1]
    /\ (polls # << >> /\ polls[1].ok) => printed # << >>

\* C17 witness: three polls, the first two without a phase, the third
\* Succeeded: two notifications, Unknown and Succeeded.
UnknownTwiceThenSucceeded ==
    /\ Len(polls) = 3
    /\ polls[1] = [ok |-> TRUE, phase |-> ""]
    /\ polls[2] = [ok |-> TRUE, phase |-> ""]
    /\ polls[3] = [ok |-> TRUE, phase |-> "Succeeded"]
    /\ printed = <<"Unknown", "Succeeded">>
    /\ wpc = "returned"

---------------------------------------------------------------------------
\* Properties of the logs check

\* The nodes named dn that carry a podName, as indices of the node map
PodCarriers(dn) ==
    { i \in 1..Len(wf.status.nodes) :
        wf.status.nodes[i].displayName = dn /\ wf.status.nodes[i].podName # << >> }

\* The pod reads issued for the k-th node expectation
PodReadsFor(k) ==
    { i \in 1..Len(apiCalls) :
        apiCalls[i].node = k /\ apiCalls[i].call.op = "read_namespaced_pod" }

\* The k-th node expectation got its pod's text: a log was fetched for it.
LogsReadFor(k) ==
    \E i \in 1..Len(apiCalls) :
        apiCalls[i].node = k /\ apiCalls[i].call.op = "read_namespaced_pod_log"

\* The required substrings of a list that the text lacks, as indices
AbsentNeedles(contains, text) ==
    { j \in 1..Len(contains) : ~Contains(text, contains[j]) }

\* C18: for a node expectation with required log substrings the pod read is
\* the podName of the first node of the map, whatever its phase, that has the
\* selector's displayName and carries a podName; resolve_pod_name is called
\* iff no such node carries one; the check fails on the first required
\* substring, in declared order, that the text lacks and passes iff none is
\* lacking.
LogsCheckReadsFirstCarrierPod ==
    \A i \in 1..Len(evlog) :
      evlog[i].check = "logs" =>
        LET k == evlog[i].node
            n == expect.nodes[k]
            carriers == PodCarriers(NodeDn(n))
            absent == AbsentNeedles(n.contains, e_logs)
        IN /\ n.contains # << >>
           /\ (k \in Range(resolveCalls)) <=> carriers = {}
           /\ Cardinality(PodReadsFor(k)) <= 1
           /\ carriers # {} =>
                LET first == CHOOSE c \in carriers : \A d \in carriers : c <= d IN
                /\ PodReadsFor(k) # {}
                /\ \A c \in PodReadsFor(k) :
                     apiCalls[c].call.pod = wf.status.nodes[first].podName
           /\ (i = Len(evlog) /\ LogsReadFor(k)) =>
                /\ evlog[i].ok <=> absent = {}
                /\ absent # {} =>
                     LET j == CHOOSE a \in absent : \A b \in absent : a <= b IN
                     /\ eerr.kind = "AssertionError"
                     /\ SubSeq(eerr.msg, 4, 3 + Len(n.contains[j])) = n.contains[j]

\* C18 witness: both attempts carry a podName and the first, a Failed one,
\* is the pod read; resolve_pod_name was not called; the text has the first
\* required substring and lacks the second, which the error names.
FailedAttemptsPodReadSecondNeedleAbsent ==
    /\ epc = "raised"
    /\ wf.status.nodes = FailedFirstMap
    /\ Len(evlog) >= 1
    /\ Last(evlog) = [check |-> "logs", node |-> 1, ok |-> FALSE]
    /\ expect.nodes[1].contains = <<<<"hello">>, <<"bye">>>>
    /\ resolveCalls = << >>
    /\ apiCalls[1].call = [op |-> "read_namespaced_pod", pod |-> <<"p", "a">>, container |-> ""]
    /\ Contains(e_logs, <<"hello">>)
    /\ ~Contains(e_logs, <<"bye">>)
    /\ SubSeq(eerr.msg, 4, 4) = <<"bye">>


\* C19: every fetch of wait_workflow starts strictly before the deadline
\* (start of the watch + timeout), the deadline being tested before each
\* fetch, the first included: with a timeout of 0 no fetch is issued and the
\* timeout error is raised whatever the workflow's phase; once the deadline
\* has passed no further poll observes the workflow.
EveryFetchStartsBeforeDeadline ==
    /\ [](/\ wpc \notin {"idle", "call"} => deadline = timeout_seconds
          /\ wpc = "fetch" => now < deadline
          /\ (timeout_seconds = 0 /\ wpc \notin {"idle", "call", "loop"}) =>
               /\ wpc = "timeout"
               /\ polls = << >>
               /\ werr.kind = "TimeoutError"
          /\ wpc = "timeout" =>
               /\ now >= deadline
               /\ \A i \in 1..Len(polls) : polls[i].ok /\ ~PollIsTerminal(i))
    /\ [][/\ polls' # polls => (wpc = "fetch" /\ now < deadline /\ Len(polls') = Len(polls) + 1)
          /\ wpc = "timeout" => (wpc' = "timeout" /\ polls' = polls)]_vars

\* C19 witness: with a timeout of 0 the watcher timed out without a fetch.
ZeroTimeoutNoFetch ==
    /\ timeout_seconds = 0
    /\ wpc = "timeout"
    /\ polls = << >>
    /\ werr.kind = "TimeoutError"

---------------------------------------------------------------------------
\* The command-line smoke test (test_argo_hello_world.py)

\* Bound of the smoke test's model: max_seconds (90 in the test), scaled
SmokeMaxSeconds == 5

\* How a subprocess.run ends: exit status 0, a non-zero exit status, or
\* subprocess.TimeoutExpired
CmdEnds == {"ok", "nonzero", "timeout"}

\* What `kubectl get wf -o jsonpath={.status.phase}` prints, stripped
SmokePhases == {"", "Pending", "Running", "Succeeded", "Failed", "Error"}

\* What `argo submit --output name` prints, stripped
SubmitNames == {"", "hello-x"}

\* run_workflow: what a command that did not end well raises; with
\* check=False a non-zero exit status raises nothing ("")
RunWorkflowRaises(ends, check) ==
    CASE ends = "timeout" -> "TimeoutExpired"
      [] ends = "nonzero" /\ check -> "RuntimeError"
      [] OTHER -> ""

SmokeTimeoutResult_Empty(last) == last

\* return last_phase or "Unknown"
SmokeTimeoutResult(last) == IF last = "" THEN "Unknown" ELSE last

Cmd(cmd, ends, out) == [cmd |-> cmd, ends |-> ends, out |-> out]

InitSmoke ==
    /\ IdleWait
    /\ IdleMain
    /\ IdleResolve
    /\ IdleEval
    /\ IdleLogs
    /\ IdleParse
    /\ tpc = "version"
    /\ t_now = 0
    /\ t_deadline = 0
    /\ t_last_phase = ""
    /\ t_wf_name = ""
    /\ t_phase = ""
    /\ t_printed = << >>
    /\ cmds = << >>
    /\ verdict = ""

\* line 45: run_workflow(["argo", "version"]); an error ends the test
SmokeVersion ==
    /\ tpc = "version"
    /\ \E ends \in CmdEnds :
         /\ cmds' = Append(cmds, Cmd("version", ends, ""))
         /\ verdict' = RunWorkflowRaises(ends, TRUE)
         /\ tpc' = IF verdict' = "" THEN "submit" ELSE "end"
    /\ UNCHANGED <<t_now, t_deadline, t_last_phase, t_wf_name, t_phase, t_printed>>
    /\ UNCHANGED notSmokeVars

\* lines 47-49: submit, and the assertion that a name came back
SmokeSubmit ==
    /\ tpc = "submit"
    /\ \E ends \in CmdEnds, out \in SubmitNames :
         LET raises == RunWorkflowRaises(ends, TRUE) IN
         /\ cmds' = Append(cmds, Cmd("submit", ends, out))
         /\ t_wf_name' = IF raises = "" THEN out ELSE t_wf_name
         /\ verdict' = IF raises # "" THEN raises
                       ELSE IF out = "" THEN "AssertionError" ELSE ""
         /\ tpc' = IF verdict' = "" THEN "wait" ELSE "end"
    /\ UNCHANGED <<t_now, t_deadline, t_last_phase, t_phase, t_printed>>
    /\ UNCHANGED notSmokeVars

\* lines 22-23: wait_workflow is entered
SmokeWaitEnter ==
    /\ tpc = "wait"
    /\ t_deadline' = t_now + SmokeMaxSeconds
    /\ t_last_phase' = ""
    /\ tpc' = "loop"
    /\ UNCHANGED <<t_now, t_wf_name, t_phase, t_printed, cmds, verdict>>
    /\ UNCHANGED notSmokeVars

\* lines 24, 39: the while test; past the deadline wait_workflow returns
SmokeLoopTest ==
    /\ tpc = "loop"
    /\ IF t_now < t_deadline
         THEN tpc' = "get" /\ t_phase' = t_phase
         ELSE tpc' = "assert_phase" /\ t_phase' = SmokeTimeoutResult(t_last_phase)
    /\ UNCHANGED <<t_now, t_deadline, t_last_phase, t_wf_name, t_printed, cmds, verdict>>
    /\ UNCHANGED notSmokeVars

\* lines 25-35: one kubectl get, the notification, the terminal test; an
\* error of the command leaves wait_workflow and the try block
SmokeGet ==
    /\ tpc = "get"
    /\ \E ends \in CmdEnds, out \in SmokePhases, dt \in 0..MaxFetchTime :
         LET raises == RunWorkflowRaises(ends, TRUE)
             changed == raises = "" /\ out # "" /\ out # t_last_phase
             terminal == raises = "" /\ out \in {"Succeeded", "Failed", "Error"}
         IN /\ t_now' = t_now + dt
            /\ cmds' = Append(cmds, Cmd("get", ends, IF raises = "" THEN out ELSE ""))
            /\ verdict' = raises
            /\ t_printed' = IF changed THEN Append(t_printed, out) ELSE t_printed
            /\ t_last_phase' = IF changed THEN out ELSE t_last_phase
            /\ t_phase' = IF terminal THEN out ELSE t_phase
            /\ tpc' = IF raises # "" THEN "finally"
                      ELSE IF terminal THEN "assert_phase" ELSE "sleep"
    /\ UNCHANGED <<t_deadline, t_wf_name>>
    /\ UNCHANGED notSmokeVars

\* line 37
SmokeSleep ==
    /\ tpc = "sleep"
    /\ \E dt \in SLEEP_SECONDS..(SLEEP_SECONDS + MaxOversleep) : t_now' = t_now + dt
    /\ tpc' = "loop"
    /\ UNCHANGED <<t_deadline, t_last_phase, t_wf_name, t_phase, t_printed, cmds, verdict>>
    /\ UNCHANGED notSmokeVars

\* line 54
SmokeAssertPhase ==
    /\ tpc = "assert_phase"
    /\ IF t_phase = "Succeeded"
         THEN tpc' = "logs" /\ verdict' = verdict
         ELSE tpc' = "finally" /\ verdict' = "AssertionError"
    /\ UNCHANGED <<t_now, t_deadline, t_last_phase, t_wf_name, t_phase, t_printed, cmds>>
    /\ UNCHANGED notSmokeVars

\* lines 56-57: argo logs and the assertion on its text
SmokeLogs ==
    /\ tpc = "logs"
    /\ \E ends \in CmdEnds, out \in {"hello world", "bye"} :
         LET raises == RunWorkflowRaises(ends, TRUE) IN
         /\ cmds' = Append(cmds, Cmd("logs", ends, IF raises = "" THEN out ELSE ""))
         /\ verdict' = IF raises # "" THEN raises
                       ELSE IF out # "hello world" THEN "AssertionError" ELSE ""
    /\ tpc' = "finally"
    /\ UNCHANGED <<t_now, t_deadline, t_last_phase, t_wf_name, t_phase, t_printed>>
    /\ UNCHANGED notSmokeVars

\* lines 59-60: the finally clause; the exception pending, if any, goes on
\* unless the delete itself raises
SmokeDelete ==
    /\ tpc = "finally"
    /\ \E ends \in CmdEnds :
         LET raises == RunWorkflowRaises(ends, FALSE) IN
         /\ cmds' = Append(cmds, Cmd("delete", ends, ""))
         /\ verdict' = IF raises # "" THEN raises
                       ELSE IF verdict = "" THEN "passed" ELSE verdict
    /\ tpc' = "end"
    /\ UNCHANGED <<t_now, t_deadline, t_last_phase, t_wf_name, t_phase, t_printed>>
    /\ UNCHANGED notSmokeVars

NextSmoke ==
    \/ SmokeVersion \/ SmokeSubmit \/ SmokeWaitEnter \/ SmokeLoopTest \/ SmokeGet
    \/ SmokeSleep \/ SmokeAssertPhase \/ SmokeLogs \/ SmokeDelete

SpecSmoke == InitSmoke /\ [][NextSmoke]_vars

---------------------------------------------------------------------------
\* Properties of the smoke test

\* The positions of the commands of one kind among the commands run
CmdsOf(kind) == { i \in 1..Len(cmds) : cmds[i].cmd = kind }

\* The non-empty phases the kubectl gets that ended well have printed
RECURSIVE SeenPhases(_)
SeenPhases(cs) ==
    IF cs = << >> THEN << >>
    ELSE (IF Head(cs).cmd = "get" /\ Head(cs).ends = "ok" /\ Head(cs).out # ""
            THEN <<Head(cs).out>> ELSE << >>)
         \o SeenPhases(Tail(cs))

\* The kubectl get at position i observed a terminal phase.
GotTerminal(i) ==
    /\ cmds[i].cmd = "get"
    /\ cmds[i].ends = "ok"
    /\ cmds[i].out \in {"Succeeded", "Failed", "Error"}

\* C20: once the submit has returned a non-empty workflow name, the delete
\* of that workflow is issued exactly once on every path to the end of the
\* test (phase not Succeeded, failed log assertion, command error, success);
\* wait_workflow does not raise when the deadline expires but returns the
\* last non-empty phase observed, or Unknown when none was, and returns a
\* terminal phase as soon as one is observed.
SmokeDeletesOnceAndWaitReturnsLastPhase ==
    /\ Cardinality(CmdsOf("delete")) <= 1
    /\ tpc = "end" =>
         /\ (CmdsOf("delete") # {}) <=> t_wf_name # ""
         /\ CmdsOf("delete") # {} => Last(cmds).cmd = "delete"
         /\ verdict # ""
    /\ tpc = "finally" => (t_wf_name # "" /\ CmdsOf("delete") = {})
    /\ \A i \in CmdsOf("get") : GotTerminal(i) => i = Len(cmds) \/ cmds[i + 1].cmd \in {"logs", "delete"}
    /\ tpc = "assert_phase" =>
         /\ verdict = ""
         /\ IF GotTerminal(Len(cmds))
              THEN t_phase = Last(cmds).out
              ELSE /\ t_now >= t_deadline
                   /\ t_phase = IF SeenPhases(cmds) = << >> THEN "Unknown"
                                ELSE Last(SeenPhases(cmds))

\* C20 witness: the workflow succeeded, the log assertion failed, and the
\* delete was issued once, last.
LogAssertionFailedThenDeleted ==
    /\ tpc = "end"
    /\ verdict = "AssertionError"
    /\ t_phase = "Succeeded"
    /\ \E i \in CmdsOf("logs") : cmds[i].ends = "ok" /\ cmds[i].out = "bye"
    /\ Cardinality(CmdsOf("delete")) = 1
    /\ Last(cmds).cmd = "delete"

\* The deadline passed with no phase ever printed: wait_workflow returned
\* Unknown and the delete was still issued.
SmokeTimedOutUnknownThenDeleted ==
    /\ tpc = "end"
    /\ t_phase = "Unknown"
    /\ SeenPhases(cmds) = << >>
    /\ Cardinality(CmdsOf("get")) >= 2
    /\ Cardinality(CmdsOf("delete")) = 1

===========================================================================
